---- MODULE Spec2Model ----
(***************************************************************************)
(* A model of DesignManager (src/lib/core/DesignManager.ts): the canvas    *)
(* paint order, the layer registry, the snapshot history with its          *)
(* asynchronous undo/redo, and the drag-to-create state machine.            *)
(*                                                                         *)
(* The fabric canvas is modelled by what the calls the manager makes do:   *)
(*   add(o)             pushes o and fires object:added                    *)
(*   remove(o)          splices o out (if present), drops it as the active *)
(*                      object and fires object:removed                    *)
(*   sendObjectToBack(o) takes o out of the list (if present) and unshifts *)
(*                      it, without any event                              *)
(*   clear()            removes every object, one object:removed each      *)
(*   toJSON()           serialises type, geometry and visibility; custom   *)
(*                      properties (layerId, isDrawingPreview, selectable) *)
(*                      are not written                                    *)
(*   loadFromJSON(j)    resolves later: clear(), then add(...revived)      *)
(* Fabric objects live in `heap`, addressed by an object identity.         *)
(***************************************************************************)
EXTENDS Integers, Sequences, FiniteSets, TLC

\* ---------------------------------------------------------------- bounds
MaxLayers == 2       \* longest layer registry explored
MaxRestores == 2     \* undo()/redo() calls in flight at one time
MaxZooms == 3        \* zoom and pan commands in one behaviour
\* How far each specification explores: the longest historyStack and the
\* number of uuidv4() results drawn in one behaviour.
LayersMaxHistory == 8
LayersMaxUuid == 2
UndoMaxHistory == 4
UndoMaxUuid == 2
BaseMaxHistory == 8
BaseMaxUuid == 3
TripMaxHistory == 4
TripMaxUuid == 6
DrawMaxHistory == 2
DrawMaxUuid == 1
FullMaxHistory == 3
FullMaxUuid == 2
OrderMaxHistory == 8
OrderMaxUuid == 3
CloseMaxHistory == 3
CloseMaxUuid == 2
ToolMaxHistory == 6
ToolMaxUuid == 3
MidDragMaxHistory == 3
MidDragMaxUuid == 2
PressMaxHistory == 2
ResizeMaxHistory == 2
ResizeMaxUuid == 1
RestoreMaxHistory == 3
RestoreMaxUuid == 4
PressMaxUuid == 1
\* Drawing previews on the canvas at one time, in the part explored
MaxPreviews == 2

NoObj == 0           \* null object reference
NoId == 0            \* null / undefined layer id

\* Canvas objects explored: the base layer, the user objects and a preview.
MaxCanvas == MaxLayers + 2
\* Identities that can be referenced at one time: a canvas being reloaded
\* while the registry, baseLayer, the preview reference and a pending clone
\* still hold the objects of the canvas before.
MaxOid == 2 * MaxCanvas + 2
Oids == 1..MaxOid

\* Pointer coordinates of the drag events (even, so that halves are whole).
XCoords == {0, 30}
YCoords == {0, 8, 30}
Points == [x : XCoords, y : YCoords]
NoPoint == [x |-> -1, y |-> -1]

\* Position of the programmatic adds.
AddPositions == {[x |-> 50, y |-> 50]}

Tools == {"select", "rectangle", "circle", "text", "image"}

Min(a, b) == IF a < b THEN a ELSE b
Max(a, b) == IF a > b THEN a ELSE b
Abs(a) == IF a < 0 THEN -a ELSE a

\* ---------------------------------------------------------------- state
VARIABLES
  hasCanvas,             \* this.canvas !== null
  objects,               \* canvas.getObjects(): object identities, bottom first
  heap,                  \* the fabric objects, by identity
  activeObject,          \* canvas.getActiveObject()
  layers,                \* this.layers
  selectedLayerId,       \* this.selectedLayerId
  baseLayer,             \* this.baseLayer
  selectedTool,          \* this.selectedTool
  isDrawingObject,       \* this.isDrawingObject
  drawingStartPoint,     \* this.drawingStartPoint
  drawingPreviewObject,  \* this.drawingPreviewObject
  historyStack,          \* this.historyStack
  historyPointer,        \* this.historyPointer
  isRestoringState,      \* this.isRestoringState
  nextUuid,              \* number of uuidv4() results drawn so far
  restores,              \* undo()/redo() calls suspended at their await
  clones,                \* duplicateActiveObject calls suspended at their await
  images,                \* image decodes (fabric.Image.fromURL) not yet resolved
  camera,                \* cameraLocked, the viewport transform and size
  doc,                   \* the document's listeners and its place in the store
  toolResult,            \* what the last executeCanvasTool call returned
  lastOp,                \* the handler that ran last, and what it was given
  trip,                  \* observer of an undo/redo round trip
  limits                 \* how far the specification explores

mgrVars == <<hasCanvas, objects, heap, activeObject, layers, selectedLayerId,
             baseLayer, selectedTool, isDrawingObject, drawingStartPoint,
             drawingPreviewObject, historyStack, historyPointer,
             isRestoringState, nextUuid>>
vars == <<mgrVars, restores, clones, images, camera, doc, toolResult, lastOp,
          trip, limits>>

\* The manager and its canvas as one record, so that a handler is a function
\* from one such record to the next.
This == [hasCanvas |-> hasCanvas, objects |-> objects, heap |-> heap,
         activeObject |-> activeObject, layers |-> layers,
         selectedLayerId |-> selectedLayerId, baseLayer |-> baseLayer,
         selectedTool |-> selectedTool, isDrawingObject |-> isDrawingObject,
         drawingStartPoint |-> drawingStartPoint,
         drawingPreviewObject |-> drawingPreviewObject,
         historyStack |-> historyStack, historyPointer |-> historyPointer,
         isRestoringState |-> isRestoringState, nextUuid |-> nextUuid]

\* ---------------------------------------------------------------- objects
\* The geometry fields (left, top, width, height) hold twice the program's
\* value, so that radius = Math.min(width, height) / 2 stays a whole number.
NoRec == [type |-> "none", left |-> 0, top |-> 0, width |-> 0, height |-> 0,
          visible |-> FALSE, selectable |-> FALSE, layerId |-> NoId,
          isDrawingPreview |-> FALSE, angle |-> 0]

NewObject(type, left, top, width, height) ==
  [type |-> type, left |-> left, top |-> top, width |-> width,
   height |-> height, visible |-> TRUE, selectable |-> TRUE,
   layerId |-> NoId, isDrawingPreview |-> FALSE, angle |-> 0]

\* obj instanceof BaseLayer
IsBaseLayerInstance(d, o) == d.heap[o].type = "baselayer"

\* obj.isBaseLayer: a property no code of the manager ever sets, so it is
\* undefined (falsy) on every object, the BaseLayer instance included.
isBaseLayer(d, o) == FALSE

SeqToSet(s) == {s[i] : i \in 1..Len(s)}

RECURSIVE SelectSeqOf(_, _)
\* s.filter(x => x \in keep)
SelectSeqOf(s, keep) ==
  IF s = <<>> THEN <<>>
  ELSE IF Head(s) \in keep THEN <<Head(s)>> \o SelectSeqOf(Tail(s), keep)
       ELSE SelectSeqOf(Tail(s), keep)

\* Identities some reference of the program can still reach.
Reachable(d, more) ==
  (SeqToSet(d.objects) \cup {d.layers[i].object : i \in 1..Len(d.layers)}
     \cup {d.baseLayer, d.activeObject, d.drawingPreviewObject} \cup more)
  \ {NoObj}

\* `new fabric.X(...)`: an identity nothing refers to.
FreeOids(d, more) == Oids \ Reachable(d, more)
Alloc(d, more) == CHOOSE o \in FreeOids(d, more) :
                    \A p \in FreeOids(d, more) : o <= p

\* ---------------------------------------------------------------- history
\* canvas.toJSON(): one entry per object, in paint order.
toJSON(d) ==
  [i \in 1..Len(d.objects) |->
     LET r == d.heap[d.objects[i]] IN
       [type |-> r.type, left |-> r.left, top |-> r.top, width |-> r.width,
        height |-> r.height, visible |-> r.visible, angle |-> r.angle]]

\* this.layers.map(({ object, ...rest }) => rest)
serializableLayers(d) ==
  [i \in 1..Len(d.layers) |->
     [id |-> d.layers[i].id, name |-> d.layers[i].name,
      visible |-> d.layers[i].visible, locked |-> d.layers[i].locked]]

\* canUndo that also answers true at the first snapshot
canUndoAtFirst(d) == d.historyPointer >= 0

canUndo(d) == d.historyPointer > 0
canRedo(d) == d.historyPointer < Len(d.historyStack) - 1

\* saveState without the truncation of the redo branch
saveStateKeepsFuture(d) ==
  IF d.isRestoringState \/ ~d.hasCanvas THEN d
  ELSE LET state == [canvas |-> toJSON(d), layers |-> serializableLayers(d)]
           stack == Append(d.historyStack, state)
       IN [d EXCEPT !.historyStack = stack,
                    !.historyPointer = Len(stack) - 1]

\* saveState with the pointer set to the length of the stack
saveStateOffByOne(d) ==
  IF d.isRestoringState \/ ~d.hasCanvas THEN d
  ELSE LET state == [canvas |-> toJSON(d), layers |-> serializableLayers(d)]
           kept == IF d.historyPointer < Len(d.historyStack) - 1
                   THEN SubSeq(d.historyStack, 1, d.historyPointer + 1)
                   ELSE d.historyStack
           stack == Append(kept, state)
       IN [d EXCEPT !.historyStack = stack,
                    !.historyPointer = Len(stack)]

saveState(d) ==
  IF d.isRestoringState \/ ~d.hasCanvas THEN d
  ELSE LET state == [canvas |-> toJSON(d), layers |-> serializableLayers(d)]
           kept == IF d.historyPointer < Len(d.historyStack) - 1
                   THEN SubSeq(d.historyStack, 1, d.historyPointer + 1)
                   ELSE d.historyStack
           stack == Append(kept, state)
       IN [d EXCEPT !.historyStack = stack,
                    !.historyPointer = Len(stack) - 1]

\* ---------------------------------------------------------------- canvas
\* The object:added / object:removed listeners of setupEventListeners.
onObjectEvent(d, o) ==
  IF d.heap[o].isDrawingPreview THEN d ELSE saveState(d)

canvasAdd(d, o) ==
  onObjectEvent([d EXCEPT !.objects = Append(d.objects, o)], o)

canvasRemove(d, o) ==
  IF o \notin SeqToSet(d.objects) THEN d
  ELSE onObjectEvent(
         [d EXCEPT !.objects = SelectSeqOf(d.objects, SeqToSet(d.objects) \ {o}),
                   !.activeObject = IF d.activeObject = o THEN NoObj
                                    ELSE d.activeObject], o)

RECURSIVE canvasRemoveAll(_, _)
\* objs.forEach(obj => canvas.remove(obj))
canvasRemoveAll(d, objs) ==
  IF objs = <<>> THEN d
  ELSE canvasRemoveAll(canvasRemove(d, Head(objs)), Tail(objs))

canvasClear(d) == canvasRemoveAll(d, d.objects)

sendObjectToBack(d, o) ==
  IF d.objects # <<>> /\ d.objects[1] = o THEN d
  ELSE [d EXCEPT !.objects =
          <<o>> \o SelectSeqOf(d.objects, SeqToSet(d.objects) \ {o})]

bringObjectToFront(d, o) ==
  IF d.objects # <<>> /\ d.objects[Len(d.objects)] = o THEN d
  ELSE [d EXCEPT !.objects =
          Append(SelectSeqOf(d.objects, SeqToSet(d.objects) \ {o}), o)]

\* if (this.baseLayer) this.canvas.sendObjectToBack(this.baseLayer)
pinBaseLayer(d) ==
  IF d.baseLayer # NoObj /\ d.hasCanvas THEN sendObjectToBack(d, d.baseLayer)
  ELSE d

\* ---------------------------------------------------------------- layers
\* uuidv4(): a value never returned before.
uuidv4(d) == d.nextUuid + 1

\* Layer names are word lists: <<"Rectangle", "Copy">> is "Rectangle Copy".
addLayer(d, name, o) ==
  LET id == uuidv4(d)
      d1 == [d EXCEPT !.heap[o].layerId = id,
                      !.layers = Append(d.layers,
                         [id |-> id, name |-> name, object |-> o,
                          visible |-> TRUE, locked |-> FALSE]),
                      !.selectedLayerId = id,
                      !.nextUuid = id]
  IN pinBaseLayer(d1)

\* canvas.add(obj); canvas.setActiveObject(obj); pin the base layer;
\* addLayer(...): the tail that every add* method shares.
addObject(d, rec, name, pinned) ==
  IF ~d.hasCanvas THEN d
  ELSE LET o == Alloc(d, pinned)
           d1 == canvasAdd([d EXCEPT !.heap[o] = rec], o)
           d2 == [d1 EXCEPT !.activeObject = o]
           d3 == IF d2.baseLayer # NoObj THEN sendObjectToBack(d2, d2.baseLayer)
                 ELSE d2
       IN addLayer(d3, name, o)

addRectangle(d, pos, pinned) ==
  addObject(d, NewObject("rect", 2 * pos.x, 2 * pos.y, 2 * 100, 2 * 80),
            <<"Rectangle">>, pinned)

\* left2, top2: twice pos.x, pos.y
addRectangleWithDimensions(d, left2, top2, width, height, pinned) ==
  addObject(d, NewObject("rect", left2, top2, 2 * width, 2 * height),
            <<"Rectangle">>, pinned)

\* A fabric.Circle of radius r is 2r wide and high.
addCircle(d, pos, pinned) ==
  addObject(d, NewObject("circle", 2 * pos.x, 2 * pos.y, 2 * (2 * 50), 2 * (2 * 50)),
            <<"Circle">>, pinned)

\* addCircleWithDimensions with the radius taken for the diameter
addCircleWithDimensionsHalved(d, left2, top2, radius2, pinned) ==
  addObject(d, NewObject("circle", left2, top2, radius2, radius2),
            <<"Circle">>, pinned)

\* left2, top2, radius2: twice pos.x, pos.y, radius
addCircleWithDimensions(d, left2, top2, radius2, pinned) ==
  addObject(d, NewObject("circle", left2, top2, 2 * radius2, 2 * radius2),
            <<"Circle">>, pinned)

\* The text is empty; its measured size is not modelled.
addText(d, pos, pinned) ==
  addObject(d, NewObject("i-text", 2 * pos.x, 2 * pos.y, 0, 0), <<"Text">>,
            pinned)

\* The .then of addImageFromDataURL, for a decoded image of size.w x size.h
\* no larger than 300 x 300 (scale = 1).
imageFromDataURLLoaded(d, pos, size, pinned) ==
  addObject(d, NewObject("image", 2 * pos.x - size.w, 2 * pos.y - size.h,
                         2 * size.w, 2 * size.h), <<"Image">>, pinned)

\* The .then of addImageFromDataURLWithDimensions: the image is scaled to
\* width x height.
imageWithDimensionsLoaded(d, pos, width, height, pinned) ==
  addObject(d, NewObject("image", 2 * pos.x, 2 * pos.y, 2 * width, 2 * height),
            <<"Image">>, pinned)

\* removeLayer without the canvas.remove
removeLayerRegistryOnly(d, layerId) ==
  LET keep == {l \in {d.layers[i] : i \in 1..Len(d.layers)} : l.id # layerId}
  IN [d EXCEPT !.layers = SelectSeqOf(d.layers, keep),
               !.selectedLayerId = IF d.selectedLayerId = layerId THEN NoId
                                   ELSE d.selectedLayerId]

\* removeLayer that leaves selectedLayerId alone
removeLayerKeepsSelection(d, layerId) ==
  LET found == {i \in 1..Len(d.layers) : d.layers[i].id = layerId}
      d1 == IF found # {} /\ d.hasCanvas
            THEN canvasRemove(d, d.layers[CHOOSE i \in found :
                                   \A j \in found : i <= j].object)
            ELSE d
      keep == {l \in {d1.layers[i] : i \in 1..Len(d1.layers)} : l.id # layerId}
  IN [d1 EXCEPT !.layers = SelectSeqOf(d1.layers, keep)]

removeLayer(d, layerId) ==
  LET found == {i \in 1..Len(d.layers) : d.layers[i].id = layerId}
      d1 == IF found # {} /\ d.hasCanvas
            THEN canvasRemove(d, d.layers[CHOOSE i \in found :
                                   \A j \in found : i <= j].object)
            ELSE d
      keep == {d1.layers[i] : i \in 1..Len(d1.layers)} \ 
              {l \in {d1.layers[i] : i \in 1..Len(d1.layers)} : l.id = layerId}
  IN [d1 EXCEPT !.layers = SelectSeqOf(d1.layers, keep),
                !.selectedLayerId = IF d1.selectedLayerId = layerId THEN NoId
                                    ELSE d1.selectedLayerId]

RECURSIVE canvasAddAll(_, _)
\* objs.forEach(obj => canvas.add(obj))
canvasAddAll(d, objs) ==
  IF objs = <<>> THEN d
  ELSE canvasAddAll(canvasAdd(d, Head(objs)), Tail(objs))

updateCanvasObjectOrder(d) ==
  IF ~d.hasCanvas THEN d
  ELSE LET objs == SelectSeqOf(d.objects,
                     {o \in SeqToSet(d.objects) : ~isBaseLayer(d, o)})
           d1 == canvasRemoveAll(d, objs)
           d2 == canvasAddAll(d1, [i \in 1..Len(d1.layers) |-> d1.layers[i].object])
       IN IF d2.baseLayer # NoObj THEN sendObjectToBack(d2, d2.baseLayer) ELSE d2

\* a.splice(index, 0, x) for index >= 0: an index past the end appends.
InsertAt(s, index, x) ==
  LET at == Min(index, Len(s))
  IN SubSeq(s, 1, at) \o <<x>> \o SubSeq(s, at + 1, Len(s))

\* a.splice(index, 1) for a valid index (both 0-based)
RemoveAt(s, index) == SubSeq(s, 1, index) \o SubSeq(s, index + 2, Len(s))

\* findIndex: 0-based, -1 when there is none
layerIndex(d, layerId) ==
  LET found == {i \in 1..Len(d.layers) : d.layers[i].id = layerId}
  IN IF found = {} THEN -1
     ELSE (CHOOSE i \in found : \A j \in found : i <= j) - 1

reorderLayer(d, layerId, newIndex) ==
  IF ~d.hasCanvas THEN d
  ELSE LET currentIndex == layerIndex(d, layerId)
       IN IF currentIndex = -1 \/ currentIndex = newIndex THEN d
          ELSE LET movedLayer == d.layers[currentIndex + 1]
                   spliced == InsertAt(RemoveAt(d.layers, currentIndex),
                                       newIndex, movedLayer)
               IN updateCanvasObjectOrder([d EXCEPT !.layers = spliced])

clear(d) ==
  IF ~d.hasCanvas THEN d
  ELSE LET objectsToRemove == SelectSeqOf(d.objects,
                     {o \in SeqToSet(d.objects) : ~isBaseLayer(d, o)})
           d1 == canvasRemoveAll(d, objectsToRemove)
       IN [d1 EXCEPT !.layers = <<>>, !.selectedLayerId = NoId]

setSelectedLayer(d, layerId) ==
  LET found == {i \in 1..Len(d.layers) : d.layers[i].id = layerId}
      d1 == [d EXCEPT !.selectedLayerId = layerId]
  IN IF ~d.hasCanvas THEN d1
     ELSE IF found # {}
          THEN [d1 EXCEPT !.activeObject =
                  d.layers[CHOOSE i \in found : \A j \in found : i <= j].object]
          ELSE [d1 EXCEPT !.activeObject = NoObj]

initializeBaseLayer(d) ==
  IF ~d.hasCanvas THEN d
  ELSE LET o == Alloc(d, {})
           d1 == canvasAdd([d EXCEPT !.heap[o] =
                     [NewObject("baselayer", 0, 0, 2 * 800, 2 * 600)
                        EXCEPT !.selectable = FALSE],
                   !.baseLayer = o], o)
       IN sendObjectToBack(d1, o)

\* new fabric.Canvas(...); setupEventListeners(); initializeBaseLayer()
initCanvas(d) ==
  initializeBaseLayer([d EXCEPT !.hasCanvas = TRUE, !.objects = <<>>])

\* ---------------------------------------------------------------- drawing
createDrawingPreview(d, startPoint, endPoint, pinned) ==
  IF ~d.hasCanvas THEN d
  ELSE LET left == Min(startPoint.x, endPoint.x)
           top == Min(startPoint.y, endPoint.y)
           width == Abs(endPoint.x - startPoint.x)
           height == Abs(endPoint.y - startPoint.y)
           finalWidth == Max(width, 5)
           finalHeight == Max(height, 5)
           radius2 == Min(finalWidth, finalHeight)
           o == Alloc(d, pinned)
           rec == IF d.selectedTool = "rectangle"
                  THEN NewObject("rect", 2 * left, 2 * top,
                                 2 * finalWidth, 2 * finalHeight)
                  ELSE IF d.selectedTool = "circle"
                  THEN NewObject("circle", 2 * left + finalWidth - radius2,
                                 2 * top + finalHeight - radius2,
                                 2 * radius2, 2 * radius2)
                  ELSE NewObject("group", 2 * left, 2 * top,
                                 2 * finalWidth, 2 * finalHeight)
           preview == [rec EXCEPT !.selectable = FALSE,
                                  !.isDrawingPreview = TRUE]
       IN IF d.selectedTool \in {"rectangle", "circle", "image"}
          THEN canvasAdd([d EXCEPT !.heap[o] = preview,
                                   !.drawingPreviewObject = o], o)
          ELSE d

startDrawing(d, point, pinned) ==
  createDrawingPreview([d EXCEPT !.isDrawingObject = TRUE,
                                 !.drawingStartPoint = point],
                       point, point, pinned)

updateDrawingPreview(d, currentPoint, pinned) ==
  IF d.drawingStartPoint = NoPoint THEN d
  ELSE LET d1 == IF d.drawingPreviewObject # NoObj /\ d.hasCanvas
                 THEN canvasRemove(d, d.drawingPreviewObject)
                 ELSE d
       IN createDrawingPreview(d1, d1.drawingStartPoint, currentPoint, pinned)

createTextAtPoint(d, point, pinned) ==
  [addText(d, point, pinned) EXCEPT !.selectedTool = "select"]

\* Whether finishDrawing reaches triggerImageUploadWithDimensions.
opensFilePicker(d, endPoint) ==
  /\ d.hasCanvas /\ d.drawingStartPoint # NoPoint
  /\ Abs(endPoint.x - d.drawingStartPoint.x) >= 10
  /\ Abs(endPoint.y - d.drawingStartPoint.y) >= 10
  /\ d.selectedTool = "image"

\* finishDrawing with the minimum size asked of one side only
finishDrawingEitherSide(d, endPoint, pinned) ==
  IF ~d.hasCanvas \/ d.drawingStartPoint = NoPoint THEN d
  ELSE LET d1 == IF d.drawingPreviewObject # NoObj
                 THEN [canvasRemove(d, d.drawingPreviewObject)
                         EXCEPT !.drawingPreviewObject = NoObj]
                 ELSE d
           left == Min(d.drawingStartPoint.x, endPoint.x)
           top == Min(d.drawingStartPoint.y, endPoint.y)
           width == Abs(endPoint.x - d.drawingStartPoint.x)
           height == Abs(endPoint.y - d.drawingStartPoint.y)
           minSize == 10
           radius2 == Min(width, height)
           d2 == IF width >= minSize \/ height >= minSize
                 THEN IF d1.selectedTool = "rectangle"
                      THEN addRectangleWithDimensions(d1, 2 * left, 2 * top,
                                                      width, height, pinned)
                      ELSE IF d1.selectedTool = "circle"
                      THEN addCircleWithDimensions(d1,
                             2 * left + width - radius2,
                             2 * top + height - radius2, radius2, pinned)
                      ELSE d1
                 ELSE d1
       IN [d2 EXCEPT !.isDrawingObject = FALSE,
                     !.drawingStartPoint = NoPoint,
                     !.selectedTool = "select"]

finishDrawing(d, endPoint, pinned) ==
  IF ~d.hasCanvas \/ d.drawingStartPoint = NoPoint THEN d
  ELSE LET d1 == IF d.drawingPreviewObject # NoObj
                 THEN [canvasRemove(d, d.drawingPreviewObject)
                         EXCEPT !.drawingPreviewObject = NoObj]
                 ELSE d
           left == Min(d.drawingStartPoint.x, endPoint.x)
           top == Min(d.drawingStartPoint.y, endPoint.y)
           width == Abs(endPoint.x - d.drawingStartPoint.x)
           height == Abs(endPoint.y - d.drawingStartPoint.y)
           minSize == 10
           radius2 == Min(width, height)
           d2 == IF width >= minSize /\ height >= minSize
                 THEN IF d1.selectedTool = "rectangle"
                      THEN addRectangleWithDimensions(d1, 2 * left, 2 * top,
                                                      width, height, pinned)
                      ELSE IF d1.selectedTool = "circle"
                      THEN addCircleWithDimensions(d1,
                             2 * left + width - radius2,
                             2 * top + height - radius2, radius2, pinned)
                      ELSE d1
                 ELSE d1
       IN [d2 EXCEPT !.isDrawingObject = FALSE,
                     !.drawingStartPoint = NoPoint,
                     !.selectedTool = "select"]

\* The alt key is not held.
handleMouseDown(d, pointer, pinned) ==
  IF ~d.hasCanvas THEN d
  ELSE IF d.selectedTool = "text" THEN createTextAtPoint(d, pointer, pinned)
  ELSE IF d.selectedTool \in {"rectangle", "circle", "image"}
       THEN startDrawing(d, pointer, pinned)
  ELSE d

handleMouseMove(d, pointer, pinned) ==
  IF ~d.hasCanvas \/ ~d.isDrawingObject \/ d.drawingStartPoint = NoPoint THEN d
  ELSE updateDrawingPreview(d, pointer, pinned)

handleMouseUp(d, pointer, pinned) ==
  IF ~d.hasCanvas \/ ~d.isDrawingObject THEN d
  ELSE finishDrawing(d, pointer, pinned)

setSelectedTool(d, tool) == [d EXCEPT !.selectedTool = tool]

\* ---------------------------------------------------------------- restore
RECURSIVE revive(_, _, _)
\* enlivenObjects + _objects.push(...): a new object per serialised entry,
\* with the defaults for everything toJSON left out.
revive(d, entries, pinned) ==
  IF entries = <<>> THEN d
  ELSE LET e == Head(entries)
           o == Alloc(d, pinned)
           rec == [NewObject(e.type, e.left, e.top, e.width, e.height)
                     EXCEPT !.visible = e.visible, !.angle = e.angle]
       IN revive([d EXCEPT !.heap[o] = rec, !.objects = Append(d.objects, o)],
                 Tail(entries), pinned)

RECURSIVE fireObjectAdded(_, _)
fireObjectAdded(d, objs) ==
  IF objs = <<>> THEN d
  ELSE fireObjectAdded(onObjectEvent(d, Head(objs)), Tail(objs))

\* The resolution of canvas.loadFromJSON(json): clear(), add(...revived).
loadFromJSON(d, json, pinned) ==
  LET d1 == revive(canvasClear(d), json, pinned)
  IN fireObjectAdded(d1, d1.objects)

rebindState(d, layerData) ==
  IF ~d.hasCanvas THEN d
  ELSE LET bases == {i \in 1..Len(d.objects) : IsBaseLayerInstance(d, d.objects[i])}
           base == IF bases = {} THEN NoObj
                   ELSE d.objects[CHOOSE i \in bases : \A j \in bases : i <= j]
           d1 == IF base = NoObj THEN [d EXCEPT !.baseLayer = NoObj]
                 ELSE [d EXCEPT !.baseLayer = base,
                                !.heap[base].selectable = FALSE]
           objectOf(id) ==
             LET at == {i \in 1..Len(d1.objects) :
                          d1.heap[d1.objects[i]].layerId = id}
             IN IF at = {} THEN NoObj
                ELSE d1.objects[CHOOSE i \in at : \A j \in at : i <= j]
           linked == [i \in 1..Len(layerData) |->
                        [id |-> layerData[i].id, name |-> layerData[i].name,
                         object |-> objectOf(layerData[i].id),
                         visible |-> layerData[i].visible,
                         locked |-> layerData[i].locked]]
       IN [d1 EXCEPT !.layers =
             SelectSeqOf(linked, {l \in SeqToSet(linked) : l.object # NoObj})]

\* obj.name ?? obj.text ?? obj.type: no object is given a name; the text of
\* an IText is the empty string, and the other kinds have no text.
restoredName(rec) == IF rec.type = "i-text" THEN <<>> ELSE <<rec.type>>

\* objects.filter(obj => !(obj instanceof BaseLayer)).map(obj => ({ id:
\* obj.layerId ?? uuidv4(), ... })): the k-th object without a tag takes the
\* k-th new uuid.
layersFromObjects(d) ==
  LET objs == SelectSeqOf(d.objects,
                {o \in SeqToSet(d.objects) : ~IsBaseLayerInstance(d, o)})
      untagged(i) == Cardinality({j \in 1..i : d.heap[objs[j]].layerId = NoId})
      rebuilt == [i \in 1..Len(objs) |->
                   LET rec == d.heap[objs[i]] IN
                     [id |-> IF rec.layerId # NoId THEN rec.layerId
                             ELSE d.nextUuid + untagged(i),
                      name |-> restoredName(rec), object |-> objs[i],
                      visible |-> rec.visible, locked |-> ~rec.selectable]]
  IN [d EXCEPT !.layers = rebuilt,
               !.nextUuid = d.nextUuid + untagged(Len(objs))]

\* undo() up to its await: the state it will load, and the manager then.
undoBegin(d) ==
  LET d1 == [d EXCEPT !.isRestoringState = TRUE,
                      !.historyPointer = d.historyPointer - 1]
  IN IF d1.hasCanvas THEN canvasClear(d1) ELSE d1

\* undo() after its await
undoEnd(d, prevState) ==
  LET d1 == IF d.hasCanvas THEN layersFromObjects(rebindState(d, prevState.layers))
            ELSE d
  IN [d1 EXCEPT !.isRestoringState = FALSE]

\* redo() up to its await
redoBegin(d) ==
  LET d1 == [d EXCEPT !.isRestoringState = TRUE,
                      !.historyPointer = d.historyPointer + 1]
  IN IF d1.hasCanvas THEN canvasClear(d1) ELSE d1

\* redo() after its await
redoEnd(d, nextState) ==
  LET d1 == IF d.hasCanvas THEN layersFromObjects(rebindState(d, nextState.layers))
            ELSE d
  IN [d1 EXCEPT !.isRestoringState = FALSE]

\* ---------------------------------------------------------------- duplicate
\* activeObject.clone(): the copy is made from the object as it is when
\* clone() is called.
cloneOf(d, o) ==
  [NewObject(d.heap[o].type, d.heap[o].left, d.heap[o].top,
             d.heap[o].width, d.heap[o].height)
     EXCEPT !.visible = d.heap[o].visible, !.angle = d.heap[o].angle]

\* duplicateEnd without the offset of the copy
duplicateEndInPlace(d, src, cloned, pinned) ==
  IF ~d.hasCanvas THEN d
  ELSE LET originals == {i \in 1..Len(d.layers) : d.layers[i].object = src}
           layerName ==
             IF originals # {}
             THEN Append(d.layers[CHOOSE i \in originals :
                                    \A j \in originals : i <= j].name, "Copy")
             ELSE <<"Duplicated", "Object">>
       IN addObject(d, cloned, layerName, pinned)

\* duplicateActiveObject after its await, for the clone of object src
duplicateEnd(d, src, cloned, pinned) ==
  IF ~d.hasCanvas THEN d
  ELSE LET offset == 20
           rec == [cloned EXCEPT !.left = cloned.left + 2 * offset,
                                 !.top = cloned.top + 2 * offset]
           originals == {i \in 1..Len(d.layers) : d.layers[i].object = src}
           layerName ==
             IF originals # {}
             THEN Append(d.layers[CHOOSE i \in originals :
                                    \A j \in originals : i <= j].name, "Copy")
             ELSE <<"Duplicated", "Object">>
       IN addObject(d, rec, layerName, pinned)

\* ---------------------------------------------------------------- hotkeys
\* The "Bring to front" hotkey, on the store's active design
hotkeyBringToFront(d) ==
  IF ~d.hasCanvas THEN d
  ELSE IF d.activeObject # NoObj /\ ~isBaseLayer(d, d.activeObject)
  THEN bringObjectToFront(d, d.activeObject)
  ELSE d

\* The layer the "Delete selected object" hotkey removes, if any
layerOfActiveObject(d) ==
  LET found == {i \in 1..Len(d.layers) : d.layers[i].object = d.activeObject}
  IN IF d.hasCanvas /\ d.activeObject # NoObj
        /\ ~isBaseLayer(d, d.activeObject) /\ found # {}
     THEN d.layers[CHOOSE i \in found : \A j \in found : i <= j].id
     ELSE NoId

\* The "Delete selected object" hotkey, on the store's active design
hotkeyDelete(d) ==
  IF ~d.hasCanvas THEN d
  ELSE IF d.activeObject # NoObj /\ ~isBaseLayer(d, d.activeObject)
  THEN LET layerId == layerOfActiveObject(d)
           d1 == canvasRemove(d, d.activeObject)
       IN IF layerId # NoId THEN removeLayer(d1, layerId) ELSE d1
  ELSE d

\* The "Send to back" hotkey, on the store's active design
hotkeySendToBack(d) ==
  IF ~d.hasCanvas THEN d
  ELSE IF d.activeObject # NoObj /\ ~isBaseLayer(d, d.activeObject)
  THEN LET d1 == sendObjectToBack(d, d.activeObject)
       IN IF d1.baseLayer # NoObj THEN sendObjectToBack(d1, d1.baseLayer)
          ELSE d1
  ELSE d

\* ---------------------------------------------------------------- camera
\* Zoom and pan offsets are JavaScript numbers; they are kept here as exact
\* fractions n/d in lowest terms with d > 0.
RECURSIVE GCD(_, _)
GCD(a, b) == IF b = 0 THEN a ELSE GCD(b, a % b)

Rat(n, d) == LET g == GCD(Abs(n), d) IN [n |-> n \div g, d |-> d \div g]
RInt(i) == [n |-> i, d |-> 1]
RAdd(a, b) == Rat(a.n * b.d + b.n * a.d, a.d * b.d)
RSub(a, b) == Rat(a.n * b.d - b.n * a.d, a.d * b.d)
RMul(a, b) == Rat(a.n * b.n, a.d * b.d)
RDiv(a, b) == Rat(a.n * b.d, a.d * b.n)
RLe(a, b) == a.n * b.d <= b.n * a.d
RMin(a, b) == IF RLe(a, b) THEN a ELSE b
RMax(a, b) == IF RLe(a, b) THEN b ELSE a
RAbs(a) == [n |-> Abs(a.n), d |-> a.d]

baseLayerConfig == [x |-> 0, y |-> 0, width |-> 800, height |-> 600]

\* cameraLocked, canvas.viewportTransform ([zoom, 0, 0, zoom, tx, ty]),
\* canvas.getWidth()/getHeight(), the setTimeout of initCanvas, and the
\* number of zoom and pan commands so far.
newCamera == [locked |-> TRUE, zoom |-> RInt(1), tx |-> RInt(0),
              ty |-> RInt(0), width |-> 960, height |-> 760,
              timer |-> FALSE, n |-> 0]

getBaseLayerBounds ==
  [left |-> baseLayerConfig.x, top |-> baseLayerConfig.y,
   right |-> baseLayerConfig.x + baseLayerConfig.width,
   bottom |-> baseLayerConfig.y + baseLayerConfig.height]

\* fabric: the point under `point` stays where it is while the zoom
\* becomes `value`.
zoomToPoint(c, point, value) ==
  [c EXCEPT !.zoom = value,
            !.tx = RSub(point.x, RDiv(RMul(RSub(point.x, c.tx), value), c.zoom)),
            !.ty = RSub(point.y, RDiv(RMul(RSub(point.y, c.ty), value), c.zoom))]

relativePan(c, point) ==
  [c EXCEPT !.tx = RAdd(c.tx, point.x), !.ty = RAdd(c.ty, point.y)]

viewportCenter(c) == [x |-> Rat(c.width, 2), y |-> Rat(c.height, 2)]

\* Math.min(scaleX, scaleY, 1) of centerCamera and of handleZoom
fitZoom(c) ==
  LET padding == 80
      availableWidth == c.width - (padding * 2)
      availableHeight == c.height - (padding * 2)
      scaleX == Rat(availableWidth, baseLayerConfig.width)
      scaleY == Rat(availableHeight, baseLayerConfig.height)
  IN RMin(RMin(scaleX, scaleY), RInt(1))

centerCamera(c, live) ==
  IF ~live THEN c
  ELSE LET optimalZoom == fitZoom(c)
           bounds == getBaseLayerBounds
           centerX == RSub(Rat(c.width, 2),
                        RMul(Rat(2 * bounds.left + baseLayerConfig.width, 2),
                             optimalZoom))
           centerY == RSub(Rat(c.height, 2),
                        RMul(Rat(2 * bounds.top + baseLayerConfig.height, 2),
                             optimalZoom))
       IN [c EXCEPT !.zoom = optimalZoom, !.tx = centerX, !.ty = centerY]

centerCameraPosition(c, live) ==
  IF ~live THEN c
  ELSE LET currentZoom == c.zoom
           bounds == getBaseLayerBounds
           centerX == RSub(Rat(c.width, 2),
                        RMul(Rat(2 * bounds.left + baseLayerConfig.width, 2),
                             currentZoom))
           centerY == RSub(Rat(c.height, 2),
                        RMul(Rat(2 * bounds.top + baseLayerConfig.height, 2),
                             currentZoom))
       IN [c EXCEPT !.tx = centerX, !.ty = centerY]

setCameraLocked(c, live, locked) ==
  LET c1 == [c EXCEPT !.locked = locked]
  IN IF locked THEN centerCamera(c1, live) ELSE c1

\* A wheel event: `factor` is 0.999 ** (deltaY * 4), `offset` the pointer
\* and `delta` (deltaX, deltaY).
handleZoom(c, live, isZoomModifier, factor, offset, delta) ==
  IF ~live THEN c
  ELSE IF isZoomModifier
  THEN LET zoom == RMax(Rat(1, 10), RMin(RMul(c.zoom, factor), RInt(20)))
       IN IF c.locked
          THEN LET minZoom == RMul(fitZoom(c), Rat(8, 10))
                   constrainedZoom == RMax(minZoom, RMin(zoom, RInt(3)))
               IN centerCameraPosition(
                    zoomToPoint(c, viewportCenter(c), constrainedZoom), live)
          ELSE zoomToPoint(c, offset, zoom)
  ELSE IF ~c.locked THEN relativePan(c, delta) ELSE c

\* The "Zoom to 100%" hotkey: canvas.setZoom(1), which fabric defines as
\* zoomToPoint((0, 0), 1).
hotkeyZoomTo100(c, live) ==
  IF ~live THEN c
  ELSE zoomToPoint(c, [x |-> RInt(0), y |-> RInt(0)], RInt(1))

\* The "Zoom in" and "Zoom out" hotkeys
hotkeyZoomIn(c, live) ==
  IF ~live THEN c
  ELSE LET newZoom == RMin(RMul(c.zoom, Rat(12, 10)), RInt(20))
       IN zoomToPoint(c, viewportCenter(c), newZoom)

hotkeyZoomOut(c, live) ==
  IF ~live THEN c
  ELSE LET newZoom == RMax(RMul(c.zoom, Rat(8, 10)), Rat(1, 10))
       IN zoomToPoint(c, viewportCenter(c), newZoom)

\* canvas.setDimensions of the Canvas component's resizeCanvas
resizeCanvas(c, live, size) ==
  IF ~live THEN c ELSE [c EXCEPT !.width = size.width, !.height = size.height]

\* ---------------------------------------------------------------- document
\* The document outside its manager: whether the store still lists it,
\* whether closeDesign disposed its fabric canvas, which listeners on
\* `document` still call into the manager, and the store's cameraLocked.
NoDelta == [x |-> RInt(0), y |-> RInt(0)]

newDoc == [inStore |-> TRUE, closed |-> FALSE, keydown |-> FALSE,
           paste |-> FALSE, cameraLocked |-> TRUE]

NoResult == [kind |-> "none", success |-> FALSE, data |-> <<>>]

\* undo() and redo() up to their first await, or to their return when
\* there is nothing to undo or redo
undoCalled(d) == IF ~canUndo(d) THEN d ELSE undoBegin(d)
redoCalled(d) == IF ~canRedo(d) THEN d ELSE redoBegin(d)

\* ---------------------------------------------------------------- closing
\* fabric's canvas.dispose(): the objects are dropped without events and
\* the active object is forgotten; the canvas object itself stays usable.
canvasDispose(d) == [d EXCEPT !.objects = <<>>, !.activeObject = NoObj]

\* DesignManager.dispose()
dispose(d) ==
  LET d1 == IF d.hasCanvas
            THEN [canvasDispose(d) EXCEPT !.hasCanvas = FALSE]
            ELSE d
  IN [d1 EXCEPT !.baseLayer = NoObj]

\* The store's closeDesign: only the fabric canvas is disposed; the
\* manager keeps its reference to it.
closeDesign(d) == IF d.hasCanvas THEN canvasDispose(d) ELSE d

\* addImageFromDataURL reaches fabric.Image.fromURL
startsDecode(d) == d.hasCanvas

\* duplicateActiveObject reaches `await activeObject.clone()`
startsClone(d) ==
  d.hasCanvas /\ d.activeObject # NoObj /\ ~isBaseLayer(d, d.activeObject)

\* undo() and redo() run without a canvas: nothing is awaited.
undoWithoutCanvas(d) ==
  IF ~canUndo(d) THEN d
  ELSE undoEnd(undoBegin(d), d.historyStack[d.historyPointer])

redoWithoutCanvas(d) ==
  IF ~canRedo(d) THEN d
  ELSE redoEnd(redoBegin(d), d.historyStack[d.historyPointer + 2])

\* Operation `call` of a manager whose canvas is null
withoutCanvas(d, call, pos, layerId, newIndex) ==
  CASE call = "addRectangle" -> addRectangle(d, pos, {})
    [] call = "addCircle" -> addCircle(d, pos, {})
    [] call = "addText" -> addText(d, pos, {})
    [] call = "addImageFromDataURL" -> d
    [] call = "duplicateActiveObject" -> d
    [] call = "clear" -> clear(d)
    [] call = "reorderLayer" -> reorderLayer(d, layerId, newIndex)
    [] call = "undo" -> undoWithoutCanvas(d)
    [] call = "redo" -> redoWithoutCanvas(d)

\* ---------------------------------------------------------------- agent tools
\* A result { success, data }: data is kept as the pieces of its template
\* string.
Result(success, data) == [kind |-> "object", success |-> success, data |-> data]
\* The function ends without a return statement.
Undefined == [kind |-> "undefined", success |-> FALSE, data |-> <<>>]

\* executeCanvasTool of the store, for the branches that read the
\* dimensions and create, select (by index) and delete objects, and for a
\* name that no branch tests. It gives the manager and the value returned.
executeCanvasTool(d, listed, toolName, params, pinned) ==
  IF ~listed \/ ~d.hasCanvas
  THEN [d |-> d, result |-> Result(FALSE, <<"No active canvas found">>)]
  ELSE IF toolName = "getCanvasDimensions"
  THEN [d |-> d,
        result |-> Result(TRUE, <<"width: ", "800", ", height: ", "600">>)]
  ELSE IF toolName = "createRectangle"
  THEN [d |-> addRectangle(d, params.pos, pinned),
        result |-> Result(TRUE, <<"Created rectangle at position ">>)]
  ELSE IF toolName = "createCircle"
  THEN [d |-> addCircle(d, params.pos, pinned),
        result |-> Result(TRUE, <<"Created circle at position ">>)]
  ELSE IF toolName = "selectObject"
  THEN LET objs == SelectSeqOf(d.objects,
                     {o \in SeqToSet(d.objects) : ~isBaseLayer(d, o)})
       IN IF params.index + 1 \in 1..Len(objs)
          THEN [d |-> [d EXCEPT !.activeObject = objs[params.index + 1]],
                result |-> Result(TRUE, <<"Selected object at index ">>)]
          ELSE [d |-> d,
                result |-> Result(FALSE, <<"No object found at index ">>)]
  ELSE IF toolName = "deleteSelectedObject"
  THEN LET objToDelete == d.activeObject
       IN IF objToDelete = NoObj
          THEN [d |-> d, result |-> Result(FALSE, <<"No object selected">>)]
          ELSE LET d1 == canvasRemove(d, objToDelete)
                   found == {i \in 1..Len(d1.layers) :
                               d1.layers[i].object = objToDelete}
                   d2 == IF found # {}
                         THEN removeLayer(d1,
                                d1.layers[CHOOSE i \in found :
                                            \A j \in found : i <= j].id)
                         ELSE d1
               IN [d |-> d2,
                   result |-> Result(TRUE, <<"Deleted selected object">>)]
  ELSE [d |-> d, result |-> Undefined]

\* ---------------------------------------------------------------- base layer size
\* A field of the config that the caller left out.
NoSize == 0

\* Twice the strokeWidth of an object: the base layer has
\* baseLayerConfig.strokeWidth = 1, the shapes are created with
\* this.strokeWidth = 0.
strokeWidth2(rec) == IF rec.type = "baselayer" THEN 2 * 1 ELSE 2 * 0

\* fabric's obj.getBoundingRect(), in half units: the axis-aligned box of
\* the object, stroke included. left/top is the object's origin, its own
\* top-left corner, and `angle` turns the object about that point.
getBoundingRect(rec) ==
  LET w == rec.width + strokeWidth2(rec)
      h == rec.height + strokeWidth2(rec)
  IN CASE rec.angle = 90 ->
            [left |-> rec.left - h, top |-> rec.top, width |-> h, height |-> w]
       [] rec.angle = 180 ->
            [left |-> rec.left - w, top |-> rec.top - h, width |-> w,
             height |-> h]
       [] rec.angle = 270 ->
            [left |-> rec.left, top |-> rec.top - w, width |-> h, height |-> w]
       [] OTHER ->
            [left |-> rec.left, top |-> rec.top, width |-> w, height |-> h]

\* this.baseLayerConfig of a manager whose base layer is on the canvas:
\* initializeBaseLayer and updateBaseLayer copy its size to the base layer,
\* and nothing changes its x and y.
baseLayerConfigOf(d) ==
  [x |-> 0, y |-> 0, width |-> d.heap[d.baseLayer].width \div 2,
   height |-> d.heap[d.baseLayer].height \div 2]

\* { ...this.baseLayerConfig, ...config }
mergedConfig(d, config) ==
  [baseLayerConfigOf(d) EXCEPT
     !.width = IF config.width # NoSize THEN config.width ELSE @,
     !.height = IF config.height # NoSize THEN config.height ELSE @]

\* The loop body of updateBaseLayer: the object pulled back to newBounds
\* (half units), one axis at a time.
pulledInto(rec, newBounds) ==
  LET objBounds == getBoundingRect(rec)
      left == IF objBounds.left < newBounds.left THEN newBounds.left
              ELSE IF objBounds.left + objBounds.width > newBounds.right
              THEN newBounds.right - objBounds.width
              ELSE rec.left
      top == IF objBounds.top < newBounds.top THEN newBounds.top
             ELSE IF objBounds.top + objBounds.height > newBounds.bottom
             THEN newBounds.bottom - objBounds.height
             ELSE rec.top
  IN [rec EXCEPT !.left = left, !.top = top]

\* updateBaseLayer(config) with a canvas and a base layer on it.
updateBaseLayer(d, config) ==
  LET cfg == mergedConfig(d, config)
      d1 == [d EXCEPT !.heap[d.baseLayer].left = 2 * cfg.x,
                      !.heap[d.baseLayer].top = 2 * cfg.y,
                      !.heap[d.baseLayer].width = 2 * cfg.width,
                      !.heap[d.baseLayer].height = 2 * cfg.height]
      newBounds == [left |-> 2 * cfg.x, top |-> 2 * cfg.y,
                    right |-> 2 * (cfg.x + cfg.width),
                    bottom |-> 2 * (cfg.y + cfg.height)]
      objs == {o \in SeqToSet(d1.objects) : ~isBaseLayer(d1, o)}
  IN IF config.width # NoSize \/ config.height # NoSize
     THEN [d1 EXCEPT !.heap = [o \in Oids |->
                                 IF o \in objs
                                 THEN pulledInto(d1.heap[o], newBounds)
                                 ELSE d1.heap[o]]]
     ELSE d1

\* centerCamera() once baseLayerConfig is cfg
centerCameraOn(c, cfg) ==
  LET padding == 80
      scaleX == Rat(c.width - (padding * 2), cfg.width)
      scaleY == Rat(c.height - (padding * 2), cfg.height)
      optimalZoom == RMin(RMin(scaleX, scaleY), RInt(1))
      centerX == RSub(Rat(c.width, 2),
                      RMul(Rat(2 * cfg.x + cfg.width, 2), optimalZoom))
      centerY == RSub(Rat(c.height, 2),
                      RMul(Rat(2 * cfg.y + cfg.height, 2), optimalZoom))
  IN [c EXCEPT !.zoom = optimalZoom, !.tx = centerX, !.ty = centerY]

\* The rotateObject branch of executeCanvasTool, with a canvas.
rotateObject(d, params) ==
  LET objToRotate == d.activeObject
      newAngle == IF params.relative
                  THEN d.heap[objToRotate].angle + params.angle
                  ELSE params.angle
  IN IF objToRotate = NoObj
     THEN [d |-> d, result |-> Result(FALSE, <<"No object selected">>)]
     ELSE [d |-> [d EXCEPT !.heap[objToRotate].angle = newAngle],
           result |-> Result(TRUE, <<"Rotated object to ", "degrees">>)]

\* ---------------------------------------------------------------- observers
\* Objects held by the closures of the pending duplicateActiveObject calls.
Pins(cl) == {cl[i].src : i \in 1..Len(cl)}

NoArg == [tool |-> "select", from |-> NoPoint, to |-> NoPoint, id |-> NoId,
          call |-> "none"]

\* Handlers that change the scene and push one snapshot when they are done.
Mutations == {"addRectangle", "addCircle", "addText", "imageLoaded",
              "duplicated", "removeLayer"}
\* Handlers that change neither the scene nor the registry.
Neutral == {"initCanvas", "setSelectedLayer", "setSelectedTool",
            "duplicateActiveObject", "addImageFromDataURL", "imageFailed"}

TripOff == [phase |-> "void", n |-> 0, k |-> 0, j |-> 0,
            canvas |-> <<>>, layers |-> <<>>]
TripStart == [TripOff EXCEPT !.phase = "mutate"]

\* The round trip observed so far, after handler `name` took the manager to
\* d: n mutations of one snapshot each from the fresh scene, then k awaited
\* undo() calls, then j awaited redo() calls; anything else ends it.
Track(name, d) ==
  LET void == TripOff
      quiet == restores = <<>> /\ clones = <<>> /\ images = <<>>
  IN CASE trip.phase = "mutate" ->
            IF name \in Mutations
            THEN IF Len(d.historyStack) = Len(historyStack) + 1 /\ ~canRedo(This)
                 THEN [trip EXCEPT !.n = trip.n + 1] ELSE void
            ELSE IF name \in Neutral THEN trip
            ELSE IF name = "undo" /\ trip.n >= 1 /\ quiet
            THEN [trip EXCEPT !.phase = "undo", !.canvas = toJSON(This),
                              !.layers = serializableLayers(This)]
            ELSE void
       [] trip.phase = "undo" ->
            IF name = "loadResolved" THEN trip
            ELSE IF name = "undone" THEN [trip EXCEPT !.k = trip.k + 1]
            ELSE IF name = "undo" /\ quiet /\ trip.k < trip.n THEN trip
            ELSE IF name = "redo" /\ quiet /\ trip.k >= 1
            THEN [trip EXCEPT !.phase = "redo"]
            ELSE void
       [] trip.phase = "redo" ->
            IF name = "loadResolved" THEN trip
            ELSE IF name = "redone" THEN [trip EXCEPT !.j = trip.j + 1]
            ELSE IF name = "redo" /\ quiet /\ trip.j < trip.k THEN trip
            ELSE void
       [] OTHER -> void

\* ---------------------------------------------------------------- actions
\* The part of the state space explored.
Explored(d) ==
  /\ Len(d.objects) <= MaxCanvas
  /\ Len(d.layers) <= MaxLayers
  /\ Len(d.historyStack) <= limits.history
  /\ d.nextUuid <= limits.uuid

\* The manager becomes d; objects nothing refers to any more are dropped.
Commit(d, pinned) ==
  /\ Explored(d)
  /\ hasCanvas' = d.hasCanvas
  /\ objects' = d.objects
  /\ heap' = [o \in Oids |-> IF o \in Reachable(d, pinned) THEN d.heap[o]
                             ELSE NoRec]
  /\ activeObject' = d.activeObject
  /\ layers' = d.layers
  /\ selectedLayerId' = d.selectedLayerId
  /\ baseLayer' = d.baseLayer
  /\ selectedTool' = d.selectedTool
  /\ isDrawingObject' = d.isDrawingObject
  /\ drawingStartPoint' = d.drawingStartPoint
  /\ drawingPreviewObject' = d.drawingPreviewObject
  /\ historyStack' = d.historyStack
  /\ historyPointer' = d.historyPointer
  /\ isRestoringState' = d.isRestoringState
  /\ nextUuid' = d.nextUuid

\* The tools of the tool_change events that handler `name` fires on the
\* canvas of manager d: finishDrawing fires one past its early return,
\* createTextAtPoint fires one; both after setting selectedTool to 'select'.
toolChangeEvents(name, d) ==
  IF name = "mouseUp"
  THEN IF d.hasCanvas /\ d.isDrawingObject /\ d.drawingStartPoint # NoPoint
       THEN <<"select">> ELSE <<>>
  ELSE IF name = "mouseDown"
  THEN IF d.hasCanvas /\ d.selectedTool = "text" THEN <<"select">> ELSE <<>>
  ELSE <<>>

\* Handler `name`, given arg, takes the manager to d. lastOp.cut is the
\* number of snapshots it dropped from the end of historyStack, lastOp.fired
\* the tool_change events it fired.
Step(name, arg, d, pinned) ==
  /\ Commit(d, pinned)
  /\ lastOp' = [op |-> name, arg |-> arg,
                cut |-> IF d.historyStack # historyStack /\ canRedo(This)
                        THEN Len(historyStack) - historyPointer - 1 ELSE 0,
                fired |-> toolChangeEvents(name, This)]
  /\ trip' = Track(name, d)
  /\ limits' = limits

\* A reload that has to decode an image resolves in a later task; any other
\* reload, and any other clone(), resolves in the microtasks of the task that
\* started it.
decodesImage(json) == \E i \in 1..Len(json) : json[i].type = "image"

\* No continuation is queued as a microtask: the event loop can take the
\* next user event, timer or image decode.
Idle ==
  /\ \A i \in 1..Len(restores) :
       restores[i].pc = "loading" /\ decodesImage(restores[i].state.canvas)
  /\ \A i \in 1..Len(clones) : heap[clones[i].src].type = "image"

Fresh ==
  /\ hasCanvas = FALSE
  /\ objects = <<>>
  /\ heap = [o \in Oids |-> NoRec]
  /\ activeObject = NoObj
  /\ layers = <<>>
  /\ selectedLayerId = NoId
  /\ baseLayer = NoObj
  /\ selectedTool = "select"
  /\ isDrawingObject = FALSE
  /\ drawingStartPoint = NoPoint
  /\ drawingPreviewObject = NoObj
  /\ historyStack = <<>>
  /\ historyPointer = -1
  /\ isRestoringState = FALSE
  /\ nextUuid = 0
  /\ restores = <<>>
  /\ clones = <<>>
  /\ images = <<>>
  /\ camera = newCamera
  /\ doc = newDoc
  /\ toolResult = NoResult
  /\ lastOp = [op |-> "new", arg |-> NoArg, cut |-> 0, fired |-> <<>>]

\* initCanvas: the canvas, its listeners, the base layer, and the timer that
\* centres the camera 10 ms later.
InitCanvas ==
  /\ ~hasCanvas
  /\ Step("initCanvas", NoArg, initCanvas(This), Pins(clones))
  /\ camera' = [camera EXCEPT !.timer = camera.locked]
  /\ doc' = [doc EXCEPT !.keydown = TRUE, !.paste = TRUE]
  /\ UNCHANGED <<restores, clones, images, toolResult>>

AddRectangle(pos) ==
  /\ Idle /\ hasCanvas
  /\ Step("addRectangle", NoArg, addRectangle(This, pos, Pins(clones)),
          Pins(clones))
  /\ UNCHANGED <<restores, clones, images, camera, doc, toolResult>>

AddCircle(pos) ==
  /\ Idle /\ hasCanvas
  /\ Step("addCircle", NoArg, addCircle(This, pos, Pins(clones)), Pins(clones))
  /\ UNCHANGED <<restores, clones, images, camera, doc, toolResult>>

AddText(pos) ==
  /\ Idle /\ hasCanvas
  /\ Step("addText", NoArg, addText(This, pos, Pins(clones)), Pins(clones))
  /\ UNCHANGED <<restores, clones, images, camera, doc, toolResult>>

\* addImageFromDataURL up to fabric.Image.fromURL: the decode is pending.
AddImageFromDataURL(pos, size) ==
  /\ Idle /\ hasCanvas
  /\ images = <<>>
  /\ Step("addImageFromDataURL", NoArg, This, Pins(clones))
  /\ images' = Append(images, [dims |-> FALSE, pos |-> pos, size |-> size])
  /\ UNCHANGED <<restores, clones, camera, doc, toolResult>>

\* The decode resolves: the .then of addImageFromDataURL or of
\* addImageFromDataURLWithDimensions.
ImageLoaded ==
  /\ Idle /\ images # <<>>
  /\ LET im == Head(images)
     IN Step("imageLoaded", NoArg,
             IF im.dims
             THEN imageWithDimensionsLoaded(This, im.pos, im.size.w, im.size.h,
                                            Pins(clones))
             ELSE imageFromDataURLLoaded(This, im.pos, im.size, Pins(clones)),
             Pins(clones))
  /\ images' = Tail(images)
  /\ UNCHANGED <<restores, clones, camera, doc, toolResult>>

\* The decode fails (the .catch), or the file picker is dismissed.
ImageFailed ==
  /\ Idle /\ images # <<>>
  /\ Step("imageFailed", NoArg, This, Pins(clones))
  /\ images' = Tail(images)
  /\ UNCHANGED <<restores, clones, camera, doc, toolResult>>

\* duplicateActiveObject up to `await activeObject.clone()`
DuplicateActiveObject ==
  /\ Idle /\ hasCanvas
  /\ activeObject # NoObj /\ ~isBaseLayer(This, activeObject)
  /\ clones = <<>>
  /\ Step("duplicateActiveObject", NoArg, This, {activeObject})
  /\ clones' = <<[src |-> activeObject, cloned |-> cloneOf(This, activeObject)]>>
  /\ UNCHANGED <<restores, images, camera, doc, toolResult>>

\* duplicateActiveObject from its await on
DuplicateResumed ==
  /\ clones # <<>>
  /\ heap[Head(clones).src].type = "image" => Idle
  /\ Step("duplicated", NoArg,
          duplicateEnd(This, Head(clones).src, Head(clones).cloned,
                       Pins(clones)), Pins(Tail(clones)))
  /\ clones' = Tail(clones)
  /\ UNCHANGED <<restores, images, camera, doc, toolResult>>

RemoveLayer(layerId) ==
  /\ Idle
  /\ \E i \in 1..Len(layers) : layers[i].id = layerId
  /\ Step("removeLayer", [NoArg EXCEPT !.id = layerId],
          removeLayer(This, layerId), Pins(clones))
  /\ UNCHANGED <<restores, clones, images, camera, doc, toolResult>>

ReorderLayer(layerId, newIndex) ==
  /\ Idle /\ hasCanvas
  /\ layerIndex(This, layerId) \notin {-1, newIndex}
  /\ Step("reorderLayer", NoArg, reorderLayer(This, layerId, newIndex),
          Pins(clones))
  /\ UNCHANGED <<restores, clones, images, camera, doc, toolResult>>

Clear ==
  /\ Idle /\ hasCanvas
  /\ Step("clear", NoArg, clear(This), Pins(clones))
  /\ UNCHANGED <<restores, clones, images, camera, doc, toolResult>>

SetSelectedLayer(layerId) ==
  /\ Idle
  /\ layerId # selectedLayerId
  /\ Step("setSelectedLayer", NoArg, setSelectedLayer(This, layerId),
          Pins(clones))
  /\ UNCHANGED <<restores, clones, images, camera, doc, toolResult>>

SetSelectedTool(tool) ==
  /\ Idle
  /\ tool # selectedTool
  /\ Step("setSelectedTool", NoArg, setSelectedTool(This, tool), Pins(clones))
  /\ UNCHANGED <<restores, clones, images, camera, doc, toolResult>>

\* The button goes down only when it is up: a press follows the release
\* that ended the previous drag.
MouseDown(pointer) ==
  /\ Idle /\ hasCanvas /\ selectedTool # "select" /\ ~isDrawingObject
  /\ Step("mouseDown", NoArg, handleMouseDown(This, pointer, Pins(clones)),
          Pins(clones))
  /\ UNCHANGED <<restores, clones, images, camera, doc, toolResult>>

\* A press that no release preceded: a second finger touching the canvas,
\* or a press after a release the page never received.
MouseDownAgain(pointer) ==
  /\ Idle /\ hasCanvas /\ selectedTool # "select" /\ isDrawingObject
  /\ Cardinality({i \in 1..Len(objects) : heap[objects[i]].isDrawingPreview})
       < MaxPreviews
  /\ Step("mouseDown", NoArg, handleMouseDown(This, pointer, Pins(clones)),
          Pins(clones))
  /\ UNCHANGED <<restores, clones, images, camera, doc, toolResult>>

MouseMove(pointer) ==
  /\ Idle /\ hasCanvas /\ isDrawingObject /\ drawingStartPoint # NoPoint
  /\ Step("mouseMove", NoArg, handleMouseMove(This, pointer, Pins(clones)),
          Pins(clones))
  /\ UNCHANGED <<restores, clones, images, camera, doc, toolResult>>

\* pick: whether the user picks a file when the image tool opens the picker
MouseUp(pointer, pick) ==
  /\ Idle /\ hasCanvas /\ isDrawingObject
  /\ Step("mouseUp",
          [tool |-> selectedTool, from |-> drawingStartPoint, to |-> pointer],
          handleMouseUp(This, pointer, Pins(clones)), Pins(clones))
  /\ IF opensFilePicker(This, pointer)
     THEN /\ images = <<>>
          /\ images' =
               IF pick
               THEN <<[dims |-> TRUE,
                       pos |-> [x |-> Min(drawingStartPoint.x, pointer.x),
                                y |-> Min(drawingStartPoint.y, pointer.y)],
                       size |-> [w |-> Abs(pointer.x - drawingStartPoint.x),
                                 h |-> Abs(pointer.y - drawingStartPoint.y)]]>>
               ELSE images
     ELSE /\ pick
          /\ images' = images
  /\ UNCHANGED <<restores, clones, camera, doc, toolResult>>

\* undo() up to `await this.canvas.loadFromJSON(...)`
Undo ==
  /\ Idle /\ canUndo(This) /\ hasCanvas
  /\ Len(restores) < limits.restores
  /\ Step("undo", NoArg, undoBegin(This), Pins(clones))
  /\ restores' = Append(restores,
                   [kind |-> "undo", pc |-> "loading",
                    state |-> historyStack[historyPointer]])
  /\ UNCHANGED <<clones, images, camera, doc, toolResult>>

\* redo() up to `await this.canvas.loadFromJSON(...)`
Redo ==
  /\ Idle /\ canRedo(This) /\ hasCanvas
  /\ Len(restores) < limits.restores
  /\ Step("redo", NoArg, redoBegin(This), Pins(clones))
  /\ restores' = Append(restores,
                   [kind |-> "redo", pc |-> "loading",
                    state |-> historyStack[historyPointer + 2]])
  /\ UNCHANGED <<clones, images, camera, doc, toolResult>>

\* The loadFromJSON of the i-th pending undo()/redo() resolves.
LoadResolved(i) ==
  /\ i \in 1..Len(restores) /\ restores[i].pc = "loading"
  /\ decodesImage(restores[i].state.canvas) => Idle
  /\ Step("loadResolved", NoArg,
          loadFromJSON(This, restores[i].state.canvas, Pins(clones)),
          Pins(clones))
  /\ restores' = [restores EXCEPT ![i].pc = "loaded"]
  /\ UNCHANGED <<clones, images, camera, doc, toolResult>>

\* The loadFromJSON of the i-th pending undo()/redo() rejects: an image of
\* the snapshot cannot be fetched or decoded. Nothing is added to the canvas,
\* and undo()/redo(), which has no try/catch/finally around its await, ends
\* there with a rejected promise.
LoadFailed(i) ==
  /\ i \in 1..Len(restores) /\ restores[i].pc = "loading"
  /\ decodesImage(restores[i].state.canvas) /\ Idle
  /\ Step("loadFailed", NoArg, This, Pins(clones))
  /\ restores' = SubSeq(restores, 1, i - 1) \o
                 SubSeq(restores, i + 1, Len(restores))
  /\ UNCHANGED <<clones, images, camera, doc, toolResult>>

\* The i-th pending undo()/redo() runs from its await to its end.
RestoreResumed(i) ==
  /\ i \in 1..Len(restores) /\ restores[i].pc = "loaded"
  /\ Step(IF restores[i].kind = "undo" THEN "undone" ELSE "redone", NoArg,
          IF restores[i].kind = "undo"
          THEN undoEnd(This, restores[i].state)
          ELSE redoEnd(This, restores[i].state), Pins(clones))
  /\ restores' = SubSeq(restores, 1, i - 1) \o
                 SubSeq(restores, i + 1, Len(restores))
  /\ UNCHANGED <<clones, images, camera, doc, toolResult>>

\* ---------------------------------------------------------------- camera
\* A camera command leaves the manager's scene alone.
CameraStep(name, c) ==
  /\ Step(name, NoArg, This, Pins(clones))
  /\ camera' = c
  /\ UNCHANGED <<restores, clones, images, doc, toolResult>>

\* The canvas takes wheel events and the hotkeys reach the document: it is
\* the store's active design, and the 10 ms timer of initCanvas, which no
\* user input precedes, has fired.
CameraReady == Idle /\ hasCanvas /\ doc.inStore /\ ~doc.closed /\ ~camera.timer

\* setTimeout(() => this.centerCamera(), 10) of initCanvas fires.
CenterTimer ==
  /\ camera.timer
  /\ CameraStep("centerTimer",
                centerCamera([camera EXCEPT !.timer = FALSE], hasCanvas))

WheelZoom(factor, offset) ==
  /\ CameraReady /\ camera.n < MaxZooms
  /\ CameraStep("wheelZoom",
                handleZoom([camera EXCEPT !.n = camera.n + 1], hasCanvas,
                           TRUE, factor, offset, NoDelta))

WheelPan(delta) ==
  /\ CameraReady /\ camera.n < MaxZooms
  /\ CameraStep("wheelPan",
                handleZoom([camera EXCEPT !.n = camera.n + 1], hasCanvas,
                           FALSE, RInt(1), NoDelta, delta))

ZoomInKey ==
  /\ CameraReady /\ camera.n < MaxZooms
  /\ CameraStep("zoomInKey",
                hotkeyZoomIn([camera EXCEPT !.n = camera.n + 1], hasCanvas))

ZoomOutKey ==
  /\ CameraReady /\ camera.n < MaxZooms
  /\ CameraStep("zoomOutKey",
                hotkeyZoomOut([camera EXCEPT !.n = camera.n + 1], hasCanvas))

ZoomTo100Key ==
  /\ CameraReady /\ camera.n < MaxZooms
  /\ CameraStep("zoomTo100Key",
                hotkeyZoomTo100([camera EXCEPT !.n = camera.n + 1], hasCanvas))

\* The "Fit canvas to screen" hotkey
CenterCameraKey ==
  /\ CameraReady
  /\ CameraStep("centerCameraKey", centerCamera(camera, hasCanvas))

\* The "Toggle camera lock" hotkey
\* Ctrl/Cmd+L: design.setCameraLocked(!design.cameraLocked), then
\* store.setCameraLocked(!design.cameraLocked), which reads the flag the
\* first call has just written.
ToggleCameraLock ==
  /\ CameraReady
  /\ Step("setCameraLocked", NoArg, This, Pins(clones))
  /\ LET c == setCameraLocked(camera, hasCanvas, ~camera.locked)
     IN /\ camera' = c
        /\ doc' = [doc EXCEPT !.cameraLocked = ~c.locked]
  /\ UNCHANGED <<restores, clones, images, toolResult>>

\* The toolbar's lock button: handleCameraLockToggle.
ToolbarCameraLock ==
  /\ CameraReady
  /\ Step("handleCameraLockToggle", NoArg, This, Pins(clones))
  /\ LET newLockState == ~doc.cameraLocked
     IN /\ doc' = [doc EXCEPT !.cameraLocked = newLockState]
        /\ camera' = setCameraLocked(camera, hasCanvas, newLockState)
  /\ UNCHANGED <<restores, clones, images, toolResult>>

\* The store's setActiveDesign on the document: its tab is clicked.
SetActiveDesign ==
  /\ CameraReady
  /\ Step("setActiveDesign", NoArg, This, Pins(clones))
  /\ camera' = setCameraLocked(camera, hasCanvas, doc.cameraLocked)
  /\ UNCHANGED <<restores, clones, images, doc, toolResult>>

\* The container changes size and the Canvas component resizes the canvas.
ResizeCanvas(size) ==
  /\ CameraReady
  /\ size # [width |-> camera.width, height |-> camera.height]
  /\ CameraStep("resizeCanvas", resizeCanvas(camera, hasCanvas, size))

\* ---------------------------------------------------------------- hotkeys
BringToFront ==
  /\ Idle /\ doc.inStore /\ hasCanvas
  /\ Step("bringToFront", NoArg, hotkeyBringToFront(This), Pins(clones))
  /\ UNCHANGED <<restores, clones, images, camera, doc, toolResult>>

SendToBack ==
  /\ Idle /\ doc.inStore /\ hasCanvas
  /\ Step("sendToBack", NoArg, hotkeySendToBack(This), Pins(clones))
  /\ UNCHANGED <<restores, clones, images, camera, doc, toolResult>>

\* ---------------------------------------------------------------- closing
\* The document is open: the store lists it and its canvas is not disposed.
Live == doc.inStore /\ ~doc.closed

\* DesignManager.dispose(), called while no undo()/redo() is in flight
Dispose ==
  /\ Idle /\ Live /\ hasCanvas /\ restores = <<>>
  /\ Step("dispose", NoArg, dispose(This), Pins(clones))
  /\ doc' = [doc EXCEPT !.keydown = FALSE]
  /\ UNCHANGED <<restores, clones, images, camera, toolResult>>

\* closeDesign(id) of the store, called while no undo()/redo() is in flight
CloseDesign ==
  /\ Idle /\ Live /\ hasCanvas /\ restores = <<>>
  /\ Step("closeDesign", NoArg, closeDesign(This), Pins(clones))
  /\ doc' = [doc EXCEPT !.inStore = FALSE, !.closed = TRUE]
  /\ UNCHANGED <<restores, clones, images, camera, toolResult>>

\* An operation is called on a manager without canvas.
WithoutCanvas(call, pos, layerId, newIndex) ==
  /\ Idle /\ ~hasCanvas /\ ~startsDecode(This) /\ ~startsClone(This)
  /\ Step("withoutCanvas", [NoArg EXCEPT !.call = call],
          withoutCanvas(This, call, pos, layerId, newIndex), Pins(clones))
  /\ UNCHANGED <<restores, clones, images, camera, doc, toolResult>>

\* A keydown of Ctrl/Cmd+D reaches `document`: the listener of
\* setupKeyboardListeners calls duplicateActiveObject.
KeydownDuplicate ==
  /\ Idle /\ doc.keydown /\ clones = <<>>
  /\ Step("keydownDuplicate", NoArg, This,
          IF startsClone(This) THEN {activeObject} ELSE {})
  /\ clones' = IF startsClone(This)
               THEN <<[src |-> activeObject,
                       cloned |-> cloneOf(This, activeObject)]>>
               ELSE clones
  /\ UNCHANGED <<restores, images, camera, doc, toolResult>>

\* A paste of an image reaches `document`: the listener of
\* setupClipboardPaste calls addImageFromDataURL at pos, the canvas centre,
\* when the canvas has the focus, which a disposed canvas has not.
PasteImage(focused, pos, size) ==
  /\ Idle /\ doc.paste /\ images = <<>>
  /\ focused => hasCanvas /\ ~doc.closed
  /\ Step(IF focused THEN "pasteImage" ELSE "pasteIgnored", NoArg, This,
          Pins(clones))
  /\ images' = IF focused /\ startsDecode(This)
               THEN Append(images, [dims |-> FALSE, pos |-> pos,
                                    size |-> size])
               ELSE images
  /\ UNCHANGED <<restores, clones, camera, doc, toolResult>>

\* ---------------------------------------------------------------- agent tools
\* onToolCall of the agent panel: executeCanvasTool(toolName, args)
ExecuteCanvasTool(toolName, params) ==
  /\ Idle
  /\ LET r == executeCanvasTool(This, doc.inStore, toolName, params,
                                Pins(clones))
     IN /\ Step("executeCanvasTool", [NoArg EXCEPT !.call = toolName], r.d,
                Pins(clones))
        /\ toolResult' = r.result
  /\ UNCHANGED <<restores, clones, images, camera, doc>>

\* ---------------------------------------------------------------- boundaries
\* undo() is called at the first snapshot or with an empty history.
UndoAtStart ==
  /\ Idle /\ hasCanvas
  /\ historyPointer = 0 \/ historyStack = <<>>
  /\ Step("undoAtStart", NoArg, undoCalled(This), Pins(clones))
  /\ UNCHANGED <<restores, clones, images, camera, doc, toolResult>>

\* redo() is called at the last snapshot.
RedoAtEnd ==
  /\ Idle /\ hasCanvas
  /\ historyPointer = Len(historyStack) - 1
  /\ Step("redoAtEnd", NoArg, redoCalled(This), Pins(clones))
  /\ UNCHANGED <<restores, clones, images, camera, doc, toolResult>>

DeleteSelected ==
  /\ Idle /\ doc.inStore /\ hasCanvas
  /\ activeObject # NoObj
  /\ Step("deleteSelected", [NoArg EXCEPT !.id = layerOfActiveObject(This)],
          hotkeyDelete(This), Pins(clones))
  /\ UNCHANGED <<restores, clones, images, camera, doc, toolResult>>

\* ---------------------------------------------------------------- base layer size
\* The width or height field of the properties panel, or one of its other
\* fields, with the base layer selected.
UpdateBaseLayer(config) ==
  /\ Idle /\ hasCanvas /\ baseLayer # NoObj
  /\ baseLayer \in SeqToSet(objects)
  /\ Step("updateBaseLayer", [config |-> config],
          updateBaseLayer(This, config), Pins(clones))
  /\ camera' = IF camera.locked
                  /\ (config.width # NoSize \/ config.height # NoSize)
               THEN centerCameraOn(camera, mergedConfig(This, config))
               ELSE camera
  /\ UNCHANGED <<restores, clones, images, doc, toolResult>>

\* The agent's rotateObject tool; angles stay below a full turn.
RotateObject(params) ==
  /\ Idle /\ doc.inStore /\ hasCanvas
  /\ activeObject # NoObj =>
       (IF params.relative THEN heap[activeObject].angle + params.angle
        ELSE params.angle) < 360
  /\ LET r == rotateObject(This, params)
     IN /\ Step("executeCanvasTool", [NoArg EXCEPT !.call = "rotateObject"],
                r.d, Pins(clones))
        /\ toolResult' = r.result
  /\ UNCHANGED <<restores, clones, images, camera, doc>>

\* ---------------------------------------------------------------- inputs
LayerIds == 1..limits.uuid
ImageSizes == {[w |-> 100, h |-> 60]}
DragTools == {"select", "rectangle", "circle"}
PressPoints == {[x |-> 0, y |-> 0], [x |-> 30, y |-> 30]}
BaseConfigs ==
  {[width |-> w, height |-> NoSize] : w \in {100, 800}}
    \cup {[width |-> NoSize, height |-> h] : h \in {60, 600}}
    \cup {[width |-> NoSize, height |-> NoSize]}
RotateParams == [angle : {0, 90}, relative : BOOLEAN]
WheelFactors == {Rat(2, 3), Rat(3, 2)}
WheelOffsets == {[x |-> RInt(0), y |-> RInt(0)],
                 [x |-> RInt(200), y |-> RInt(100)]}
PanDeltas == {[x |-> RInt(40), y |-> RInt(0)], [x |-> RInt(0), y |-> RInt(-40)]}
Calls == {"addRectangle", "addCircle", "addText", "addImageFromDataURL",
          "duplicateActiveObject", "clear", "reorderLayer", "undo", "redo"}
CoreTools == {"getCanvasDimensions", "createRectangle", "createCircle",
              "selectObject", "deleteSelectedObject"}
\* Some of the tools the chat route declares and executeCanvasTool lacks
RouteOnlyTools == {"groupObjects", "bringToFront", "zoomIn"}
ToolParams == {[pos |-> p, index |-> i] : p \in AddPositions, i \in 0..MaxLayers}
Viewports == {[width |-> 960, height |-> 760], [width |-> 560, height |-> 460]}

\* ---------------------------------------------------------------- Spec
\* Every handler of the model, each input from its smallest set.
Init ==
  /\ Fresh /\ trip = TripOff
  /\ limits = [history |-> FullMaxHistory, uuid |-> FullMaxUuid,
               restores |-> MaxRestores]

Next ==
  \/ InitCanvas
  \/ \E pos \in AddPositions : AddRectangle(pos)
  \/ \E pos \in AddPositions : AddCircle(pos)
  \/ \E pos \in AddPositions : AddText(pos)
  \/ \E pos \in AddPositions, size \in ImageSizes : AddImageFromDataURL(pos, size)
  \/ ImageLoaded
  \/ ImageFailed
  \/ DuplicateActiveObject
  \/ DuplicateResumed
  \/ \E id \in LayerIds : RemoveLayer(id)
  \/ \E id \in LayerIds, newIndex \in 0..MaxLayers : ReorderLayer(id, newIndex)
  \/ Clear
  \/ \E id \in LayerIds \cup {NoId} : SetSelectedLayer(id)
  \/ \E tool \in Tools : SetSelectedTool(tool)
  \/ \E p \in Points : MouseDown(p)
  \/ \E p \in Points : MouseMove(p)
  \/ \E p \in Points, pick \in BOOLEAN : MouseUp(p, pick)
  \/ Undo
  \/ Redo
  \/ \E i \in 1..MaxRestores : LoadResolved(i)
  \/ \E i \in 1..MaxRestores : RestoreResumed(i)

Spec == Init /\ [][Next]_vars

\* ---------------------------------------------------------------- SpecLayers
\* add / duplicate / remove / reorder only.
InitLayers ==
  /\ Fresh /\ trip = TripOff
  /\ limits = [history |-> LayersMaxHistory, uuid |-> LayersMaxUuid,
               restores |-> 0]

NextLayers ==
  \/ InitCanvas
  \/ \E pos \in AddPositions : AddRectangle(pos)
  \/ \E pos \in AddPositions : AddCircle(pos)
  \/ \E pos \in AddPositions : AddText(pos)
  \/ \E pos \in AddPositions, size \in ImageSizes : AddImageFromDataURL(pos, size)
  \/ ImageLoaded
  \/ ImageFailed
  \/ DuplicateActiveObject
  \/ DuplicateResumed
  \/ \E id \in LayerIds : RemoveLayer(id)
  \/ \E id \in LayerIds, newIndex \in 0..MaxLayers : ReorderLayer(id, newIndex)
  \/ DeleteSelected

SpecLayers == InitLayers /\ [][NextLayers]_vars

\* ---------------------------------------------------------------- SpecUndo
\* Snapshots and undo()/redo(), overlapping calls included.
InitUndo ==
  /\ Fresh /\ trip = TripOff
  /\ limits = [history |-> UndoMaxHistory, uuid |-> UndoMaxUuid,
               restores |-> MaxRestores]

NextUndo ==
  \/ InitCanvas
  \/ \E pos \in AddPositions, size \in ImageSizes : AddImageFromDataURL(pos, size)
  \/ ImageLoaded
  \/ \E id \in LayerIds : RemoveLayer(id)
  \/ Undo
  \/ Redo
  \/ \E i \in 1..MaxRestores : LoadResolved(i)
  \/ \E i \in 1..MaxRestores : RestoreResumed(i)
  \/ UndoAtStart
  \/ RedoAtEnd

SpecUndo == InitUndo /\ [][NextUndo]_vars

\* ---------------------------------------------------------------- SpecBase
\* The base layer under add, duplicate, reorder, clear and awaited undo/redo.
InitBase ==
  /\ Fresh /\ trip = TripOff
  /\ limits = [history |-> BaseMaxHistory, uuid |-> BaseMaxUuid,
               restores |-> 1]

NextBase ==
  \/ InitCanvas
  \/ \E pos \in AddPositions : AddRectangle(pos)
  \/ DuplicateActiveObject
  \/ DuplicateResumed
  \/ \E id \in LayerIds, newIndex \in 0..MaxLayers : ReorderLayer(id, newIndex)
  \/ Clear
  \/ Undo
  \/ Redo
  \/ \E i \in 1..MaxRestores : LoadResolved(i)
  \/ \E i \in 1..MaxRestores : RestoreResumed(i)

SpecBase == InitBase /\ [][NextBase]_vars

\* ---------------------------------------------------------------- SpecTrip
\* Mutations, then awaited undo() calls, then awaited redo() calls.
InitTrip ==
  /\ Fresh /\ trip = TripStart
  /\ limits = [history |-> TripMaxHistory, uuid |-> TripMaxUuid,
               restores |-> 1]

NextTrip ==
  \/ InitCanvas
  \/ \E pos \in AddPositions : AddRectangle(pos)
  \/ \E pos \in AddPositions : AddCircle(pos)
  \/ DuplicateActiveObject
  \/ DuplicateResumed
  \/ \E id \in LayerIds : RemoveLayer(id)
  \/ Undo
  \/ Redo
  \/ \E i \in 1..MaxRestores : LoadResolved(i)
  \/ \E i \in 1..MaxRestores : RestoreResumed(i)

SpecTrip == InitTrip /\ [][NextTrip]_vars

\* ---------------------------------------------------------------- SpecDraw
\* The drag-to-create state machine with the rectangle and circle tools.
InitDraw ==
  /\ Fresh /\ trip = TripOff
  /\ limits = [history |-> DrawMaxHistory, uuid |-> DrawMaxUuid,
               restores |-> 0]

NextDraw ==
  \/ InitCanvas
  \/ \E tool \in DragTools : SetSelectedTool(tool)
  \/ \E p \in Points : MouseDown(p)
  \/ \E p \in Points : MouseMove(p)
  \/ \E p \in Points : MouseUp(p, TRUE)

SpecDraw == InitDraw /\ [][NextDraw]_vars

\* ---------------------------------------------------------------- SpecCamera
\* Zoom, pan, lock and resize commands on an initialized scene.
InitCamera ==
  /\ Fresh /\ trip = TripOff
  /\ limits = [history |-> FullMaxHistory, uuid |-> FullMaxUuid,
               restores |-> 0]

NextCamera ==
  \/ InitCanvas
  \/ CenterTimer
  \/ \E f \in WheelFactors, p \in WheelOffsets : WheelZoom(f, p)
  \/ \E delta \in PanDeltas : WheelPan(delta)
  \/ ZoomInKey
  \/ ZoomOutKey
  \/ ZoomTo100Key
  \/ CenterCameraKey
  \/ ToggleCameraLock
  \/ \E size \in Viewports : ResizeCanvas(size)

SpecCamera == InitCamera /\ [][NextCamera]_vars

\* ---------------------------------------------------------------- SpecOrder
\* The z-order under add, remove, reorder, the z-order hotkeys and awaited
\* undo/redo.
InitOrder ==
  /\ Fresh /\ trip = TripOff
  /\ limits = [history |-> OrderMaxHistory, uuid |-> OrderMaxUuid,
               restores |-> 1]

NextOrder ==
  \/ InitCanvas
  \/ \E pos \in AddPositions : AddRectangle(pos)
  \/ \E pos \in AddPositions : AddCircle(pos)
  \/ \E id \in LayerIds : RemoveLayer(id)
  \/ \E id \in LayerIds, newIndex \in 0..MaxLayers : ReorderLayer(id, newIndex)
  \/ \E id \in LayerIds \cup {NoId} : SetSelectedLayer(id)
  \/ BringToFront
  \/ SendToBack
  \/ Undo
  \/ Redo
  \/ \E i \in 1..MaxRestores : LoadResolved(i)
  \/ \E i \in 1..MaxRestores : RestoreResumed(i)

SpecOrder == InitOrder /\ [][NextOrder]_vars

\* ---------------------------------------------------------------- SpecClose
\* A document that is disposed of or closed, with an image decode or a
\* listener outliving it.
InitClose ==
  /\ Fresh /\ trip = TripOff
  /\ limits = [history |-> CloseMaxHistory, uuid |-> CloseMaxUuid,
               restores |-> 1]

NextClose ==
  \/ InitCanvas
  \/ Live /\ \E pos \in AddPositions : AddRectangle(pos)
  \/ Live /\ \E pos \in AddPositions, size \in ImageSizes :
               AddImageFromDataURL(pos, size)
  \/ ImageLoaded
  \/ Live /\ Undo
  \/ Live /\ Redo
  \/ \E i \in 1..MaxRestores : LoadResolved(i)
  \/ \E i \in 1..MaxRestores : RestoreResumed(i)
  \/ Dispose
  \/ CloseDesign
  \/ \E call \in Calls \ {"reorderLayer"}, pos \in AddPositions :
        WithoutCanvas(call, pos, NoId, 0)
  \/ \E id \in LayerIds, newIndex \in 0..MaxLayers, pos \in AddPositions :
        WithoutCanvas("reorderLayer", pos, id, newIndex)
  \/ KeydownDuplicate
  \/ DuplicateResumed
  \/ \E focused \in BOOLEAN, pos \in AddPositions, size \in ImageSizes :
        PasteImage(focused, pos, size)

SpecClose == InitClose /\ [][NextClose]_vars

\* ---------------------------------------------------------------- SpecTool
\* The agent's tool calls on the active design.
InitTool ==
  /\ Fresh /\ trip = TripOff
  /\ limits = [history |-> ToolMaxHistory, uuid |-> ToolMaxUuid,
               restores |-> 0]

NextTool ==
  \/ InitCanvas
  \/ \E toolName \in CoreTools \cup RouteOnlyTools, params \in ToolParams :
        ExecuteCanvasTool(toolName, params)

SpecTool == InitTool /\ [][NextTool]_vars

\* ---------------------------------------------------------------- SpecPress
\* The drag-to-create state machine when a press can follow a press.
InitPress ==
  /\ Fresh /\ trip = TripOff
  /\ limits = [history |-> PressMaxHistory, uuid |-> PressMaxUuid,
               restores |-> 0]

NextPress ==
  \/ InitCanvas
  \/ \E tool \in DragTools : SetSelectedTool(tool)
  \/ \E p \in PressPoints : MouseDown(p)
  \/ \E p \in PressPoints : MouseDownAgain(p)
  \/ \E p \in PressPoints : MouseMove(p)
  \/ \E p \in PressPoints : MouseUp(p, TRUE)

SpecPress == InitPress /\ [][NextPress]_vars

\* ---------------------------------------------------------------- SpecMidDrag
\* Drags interleaved with image adds, whose decode resolves at any time.
InitMidDrag ==
  /\ Fresh /\ trip = TripOff
  /\ limits = [history |-> MidDragMaxHistory, uuid |-> MidDragMaxUuid,
               restores |-> 0]

NextMidDrag ==
  \/ InitCanvas
  \/ \E tool \in DragTools : SetSelectedTool(tool)
  \/ \E p \in PressPoints : MouseDown(p)
  \/ \E p \in PressPoints : MouseMove(p)
  \/ \E p \in PressPoints : MouseUp(p, TRUE)
  \/ \E pos \in AddPositions, size \in ImageSizes : AddImageFromDataURL(pos, size)
  \/ ImageLoaded

SpecMidDrag == InitMidDrag /\ [][NextMidDrag]_vars

\* ---------------------------------------------------------------- SpecRestore
\* undo()/redo() over snapshots with images, whose reload can fail. A
\* pending loadFromJSON settles, one way or the other, the continuation of
\* a resolved one is run by the event loop, and a pending image decode
\* resolves; the user owes no further command.
InitRestore ==
  /\ Fresh /\ trip = TripOff
  /\ limits = [history |-> RestoreMaxHistory, uuid |-> RestoreMaxUuid,
               restores |-> 1]

NextRestore ==
  \/ InitCanvas
  \/ \E pos \in AddPositions, size \in ImageSizes : AddImageFromDataURL(pos, size)
  \/ ImageLoaded
  \/ Undo
  \/ Redo
  \/ \E i \in 1..MaxRestores : LoadResolved(i)
  \/ \E i \in 1..MaxRestores : LoadFailed(i)
  \/ \E i \in 1..MaxRestores : RestoreResumed(i)

\* What LoadResolved(i) and LoadFailed(i) do to the pending restores: the
\* i-th load settles.
LoadSettles ==
  \E i \in 1..Len(restores) :
    /\ restores[i].pc = "loading"
    /\ decodesImage(restores[i].state.canvas) => Idle
    /\ \/ restores' = [restores EXCEPT ![i].pc = "loaded"]
       \/ /\ decodesImage(restores[i].state.canvas)
          /\ restores' = SubSeq(restores, 1, i - 1) \o
                         SubSeq(restores, i + 1, Len(restores))

\* What RestoreResumed(i) does to the pending restores: the continuation of
\* the i-th undo()/redo() runs.
ContinuationRuns ==
  \E i \in 1..Len(restores) :
    /\ restores[i].pc = "loaded"
    /\ restores' = SubSeq(restores, 1, i - 1) \o
                   SubSeq(restores, i + 1, Len(restores))

\* What ImageLoaded does to the pending image adds: the decode resolves.
ImageSettles == images # <<>> /\ Idle /\ images' = Tail(images)

SpecRestore ==
  /\ InitRestore /\ [][NextRestore]_vars
  /\ WF_restores(LoadSettles)
  /\ WF_restores(ContinuationRuns)
  /\ WF_images(ImageSettles)

\* ---------------------------------------------------------------- SpecResize
\* Rectangles, turned or not, on a base layer whose size changes.
InitResize ==
  /\ Fresh /\ trip = TripOff
  /\ limits = [history |-> ResizeMaxHistory, uuid |-> ResizeMaxUuid,
               restores |-> 0]

NextResize ==
  \/ InitCanvas
  \/ \E pos \in AddPositions : AddRectangle(pos)
  \/ \E params \in RotateParams : RotateObject(params)
  \/ \E config \in BaseConfigs : UpdateBaseLayer(config)

SpecResize == InitResize /\ [][NextResize]_vars

\* ---------------------------------------------------------------- SpecLock
\* The camera lock of the store and of the document, with zoom and pan.
InitLock ==
  /\ Fresh /\ trip = TripOff
  /\ limits = [history |-> FullMaxHistory, uuid |-> FullMaxUuid,
               restores |-> 0]

NextLock ==
  \/ InitCanvas
  \/ CenterTimer
  \/ \E f \in WheelFactors, p \in WheelOffsets : WheelZoom(f, p)
  \/ \E delta \in PanDeltas : WheelPan(delta)
  \/ ToggleCameraLock
  \/ ToolbarCameraLock
  \/ SetActiveDesign

SpecLock == InitLock /\ [][NextLock]_vars

\* ---------------------------------------------------------------- properties
\* The scene without drawing previews, by value and in paint order.
Scene ==
  LET kept == SelectSeqOf(objects, {o \in SeqToSet(objects) :
                                      ~heap[o].isDrawingPreview})
  IN [i \in 1..Len(kept) |-> heap[kept[i]]]

\* Everything on the canvas, by value and in paint order.
Canvas == [i \in 1..Len(objects) |-> heap[objects[i]]]

nonBaseObjects == {o \in SeqToSet(objects) : ~IsBaseLayerInstance(This, o)}
layerObjects == {layers[i].object : i \in 1..Len(layers)}
layerIds == [i \in 1..Len(layers) |-> layers[i].id]

\* C1: after each add (rectangle, circle, text, image, duplicate), removeLayer
\* and reorderLayer on an initialised document, the set of non-base objects on
\* the canvas equals the set of objects the entries of layers reference.
C1_LayerSceneEquality == hasCanvas => nonBaseObjects = layerObjects

\* C1 witness: two layers have been reordered.
C1_Reordered ==
  /\ lastOp.op = "reorderLayer" /\ Len(layers) = 2
  /\ Cardinality(nonBaseObjects) = 2

\* C2: from a fresh scene, N one-snapshot mutations and N awaited undo() calls
\* leave no non-base object and no layer, and N awaited redo() calls then
\* restore the scene objects and the layer list of the final state.
C2_RoundTrip ==
  /\ (trip.phase = "undo" /\ trip.k = trip.n /\ restores = <<>>)
       => (nonBaseObjects = {} /\ layers = <<>>)
  /\ (trip.phase = "redo" /\ trip.k = trip.n /\ trip.j = trip.n
        /\ restores = <<>>)
       => (toJSON(This) = trip.canvas /\ serializableLayers(This) = trip.layers)

\* C3: no step pushes a snapshot while an undo() or redo() is in flight,
\* whatever the interleaving of the calls with the events their reloads fire.
C3_NoPushDuringRestore ==
  [][restores # <<>> => historyStack' = historyStack]_vars

\* C4: a step that pushes a snapshot leaves canRedo() false, keeps the
\* snapshots up to the pointer and drops the ones ahead of it: after a
\* mutation the stack ends one past the old pointer.
C4_RedoTruncation ==
  [][historyStack' # historyStack =>
       /\ historyPointer' = Len(historyStack') - 1
       /\ Len(historyStack') >= historyPointer + 2
       /\ SubSeq(historyStack', 1, historyPointer + 1) =
            SubSeq(historyStack, 1, historyPointer + 1)
       /\ lastOp'.op \in Mutations => Len(historyStack') = historyPointer + 2
    ]_vars

\* C4 witness: with every undo() finished, a mutation has pushed a snapshot
\* over a redo branch.
C4_MutatedAfterUndo ==
  /\ lastOp.op \in Mutations /\ lastOp.cut >= 1
  /\ restores = <<>> /\ ~canRedo(This)

\* C5: -1 <= historyPointer <= historyStack.length - 1 in every state.
C5_PointerInRange ==
  -1 <= historyPointer /\ historyPointer <= Len(historyStack) - 1

\* C5 witness: a snapshot pushed while a restore is pending has truncated
\* the stack.
C5_TruncatedWhilePending ==
  /\ restores # <<>> /\ lastOp.cut >= 1
  /\ historyPointer = Len(historyStack) - 1

\* C6: after every add, reorderLayer and duplicate, the base layer is the
\* element at index 0 of the paint order.
C6_BaseLayerPinned ==
  lastOp.op \in {"addRectangle", "addCircle", "addText", "imageLoaded",
                 "duplicated", "reorderLayer"}
    => (objects # <<>> /\ IsBaseLayerInstance(This, objects[1]))

\* C7: with no restore in flight, an initialised document has exactly one
\* base layer object on the canvas, baseLayer refers to it and no entry of
\* layers references it.
C7_OneBaseLayer ==
  (hasCanvas /\ restores = <<>>) =>
    /\ Cardinality({i \in 1..Len(objects) :
                      IsBaseLayerInstance(This, objects[i])}) = 1
    /\ baseLayer \in SeqToSet(objects)
    /\ IsBaseLayerInstance(This, baseLayer)
    /\ baseLayer \notin layerObjects

\* C8: once as many awaited redo() calls as awaited undo() calls have
\* finished, every layer has the id it had before the first undo().
C8_StableLayerIds ==
  (trip.phase = "redo" /\ trip.j = trip.k /\ restores = <<>>) =>
    layerIds = [i \in 1..Len(trip.layers) |-> trip.layers[i].id]

dragWidth(arg) == Abs(arg.to.x - arg.from.x)
dragHeight(arg) == Abs(arg.to.y - arg.from.y)
isShapeDrag(op) == op.op = "mouseUp" /\ op.arg.tool \in {"rectangle", "circle"}

commitsOne(left2, top2, width2, height2) ==
  /\ Len(objects') = Len(Scene) + 1
  /\ SubSeq(Canvas', 1, Len(Scene)) = Scene
  /\ LET o == objects'[Len(objects')]
         rec == heap'[o]
     IN /\ rec.type = (IF lastOp'.arg.tool = "rectangle" THEN "rect"
                       ELSE "circle")
        /\ rec.left = left2 /\ rec.top = top2
        /\ rec.width = width2 /\ rec.height = height2
        /\ Len(layers') = Len(layers) + 1
        /\ SubSeq(layers', 1, Len(layers)) = layers
        /\ layers'[Len(layers')].object = o

\* C10 as stated: a drag with the rectangle or circle tool of at least
\* 10 x 10 commits one object of the tool's kind and one layer, the object's
\* bounds being the drag rectangle.
C10_BoundsAreDragRectangle ==
  [][(isShapeDrag(lastOp')
        /\ dragWidth(lastOp'.arg) >= 10 /\ dragHeight(lastOp'.arg) >= 10)
       => commitsOne(2 * Min(lastOp'.arg.from.x, lastOp'.arg.to.x),
                     2 * Min(lastOp'.arg.from.y, lastOp'.arg.to.y),
                     2 * dragWidth(lastOp'.arg), 2 * dragHeight(lastOp'.arg))
    ]_vars

\* C10 amended: such a drag commits one object of the tool's kind and one
\* layer; a rectangle's bounds are the drag rectangle, a circle is the circle
\* of diameter min(width, height) centred in the drag rectangle.
C10_CircleInscribed ==
  [][(isShapeDrag(lastOp')
        /\ dragWidth(lastOp'.arg) >= 10 /\ dragHeight(lastOp'.arg) >= 10)
       => LET arg == lastOp'.arg
              w == dragWidth(arg)
              h == dragHeight(arg)
              m == IF arg.tool = "circle" THEN Min(w, h) ELSE w
              n == IF arg.tool = "circle" THEN Min(w, h) ELSE h
          IN commitsOne(2 * Min(arg.from.x, arg.to.x) + w - m,
                        2 * Min(arg.from.y, arg.to.y) + h - n,
                        2 * m, 2 * n)
    ]_vars

\* C10 witness: a circle drag of 30 x 22 has committed a circle of diameter 22.
C10_NonSquareCircle ==
  /\ isShapeDrag(lastOp) /\ lastOp.arg.tool = "circle"
  /\ dragWidth(lastOp.arg) = 30 /\ dragHeight(lastOp.arg) = 22
  /\ objects # <<>> /\ heap[objects[Len(objects)]].type = "circle"
  /\ heap[objects[Len(objects)]].width = 2 * 22

\* ---------------------------------------------------------------- camera lock
ZoomCommands == {"wheelZoom", "zoomInKey", "zoomOutKey"}

\* The viewport position of the base layer's centre, less the viewport's.
baseCenterOffset ==
  [x |-> RSub(RAdd(RMul(Rat(2 * baseLayerConfig.x + baseLayerConfig.width, 2),
                        camera.zoom), camera.tx), Rat(camera.width, 2)),
   y |-> RSub(RAdd(RMul(Rat(2 * baseLayerConfig.y + baseLayerConfig.height, 2),
                        camera.zoom), camera.ty), Rat(camera.height, 2))]

\* C11: after a modifier-wheel zoom or a zoom-in / zoom-out hotkey given
\* while the camera is locked, the zoom is at most 3 and at least
\* fitMinimum * 0.8, fitMinimum being min((width - 160) / baseWidth,
\* (height - 160) / baseHeight, 1).
C11_LockedZoomClamped ==
  (camera.locked /\ lastOp.op \in ZoomCommands) =>
    /\ RLe(camera.zoom, RInt(3))
    /\ RLe(RMul(fitZoom(camera), Rat(8, 10)), camera.zoom)

\* C12: after any zoom performed while the camera is locked, the base
\* layer's centre is drawn within 1 unit of the viewport's centre.
C12_LockedZoomCentred ==
  (camera.locked /\ lastOp.op \in ZoomCommands \cup {"zoomTo100Key"}) =>
    /\ RLe(RAbs(baseCenterOffset.x), RInt(1))
    /\ RLe(RAbs(baseCenterOffset.y), RInt(1))

\* ---------------------------------------------------------------- duplicate
\* C13: duplicateActiveObject on a selected non-base object at (x, y) puts
\* exactly one new object on the canvas, at exactly (x + 20, y + 20), and
\* appends one layer for it whose id no layer had before.
C13_DuplicateOffset ==
  [][lastOp'.op = "duplicated" =>
       LET src == Head(clones).src
           added == SeqToSet(objects') \ SeqToSet(objects)
           entry == layers'[Len(layers')]
       IN /\ ~IsBaseLayerInstance(This, src)
          /\ Len(objects') = Len(objects) + 1 /\ Cardinality(added) = 1
          /\ \A o \in added :
               /\ o # src /\ heap'[o].type = heap[src].type
               /\ heap'[o].left = heap[src].left + 2 * 20
               /\ heap'[o].top = heap[src].top + 2 * 20
          /\ Len(layers') = Len(layers) + 1
          /\ SubSeq(layers', 1, Len(layers)) = layers
          /\ entry.object \in added
          /\ \A i \in 1..Len(layers) : layers[i].id # entry.id]_vars

\* A duplicate has been made, of an image among others (its clone() spans
\* tasks), and the copy sits 20 right of and 20 below a layer's object.
C13_Duplicated ==
  /\ lastOp.op = "duplicated" /\ Len(layers) = 2
  /\ heap[layers[2].object].left = heap[layers[1].object].left + 2 * 20
  /\ heap[layers[2].object].top = heap[layers[1].object].top + 2 * 20
  /\ heap[layers[2].object].type = "image"

\* ---------------------------------------------------------------- z-order
\* C14: whenever no undo()/redo() is in flight, the non-base canvas objects
\* read bottom to top are the objects of layers read from index 0 up.
C14_PaintOrderIsLayerOrder ==
  (hasCanvas /\ restores = <<>>) =>
    SelectSeqOf(objects, nonBaseObjects)
      = [i \in 1..Len(layers) |-> layers[i].object]

\* ---------------------------------------------------------------- closing
\* C15: while the canvas is null (never initialized, or after dispose()),
\* each of addRectangle, addCircle, addText, addImageFromDataURL,
\* duplicateActiveObject, clear, reorderLayer, undo and redo runs to its end
\* and leaves layers, selectedLayerId, historyStack and historyPointer as
\* they were.
C15_NoCanvasNoOp ==
  [][lastOp'.op = "withoutCanvas" =>
       /\ layers' = layers /\ selectedLayerId' = selectedLayerId
       /\ historyStack' = historyStack
       /\ historyPointer' = historyPointer]_vars

\* C17: when the decode of an image requested with addImageFromDataURL
\* resolves after the document was closed (closeDesign) or disposed of
\* (dispose), it adds no object to the scene and no entry to layers.
C17_NoAddAfterClose ==
  [][(lastOp'.op = "imageLoaded" /\ (doc.closed \/ ~hasCanvas)) =>
       objects' = objects /\ layers' = layers]_vars

\* C18: after closeDesign no keydown of Ctrl/Cmd+D calls
\* duplicateActiveObject on the closed document and no paste calls its
\* addImageFromDataURL.
C18_ListenersDetached ==
  doc.closed => lastOp.op \notin {"keydownDuplicate", "pasteImage"}

\* ---------------------------------------------------------------- agent tools
\* C16: executeCanvasTool called on an open document with a name it does
\* not implement returns an object with success = false whose message
\* contains that name, and changes nothing in the document.
C16_UnknownToolReported ==
  [][(lastOp'.op = "executeCanvasTool" /\ lastOp'.arg.call \in RouteOnlyTools
        /\ doc.inStore /\ hasCanvas) =>
       /\ toolResult'.kind = "object" /\ toolResult'.success = FALSE
       /\ \E i \in 1..Len(toolResult'.data) :
            toolResult'.data[i] = lastOp'.arg.call
       /\ mgrVars' = mgrVars]_vars

\* ---------------------------------------------------------------- boundaries
\* C19: canUndo() is false exactly when the pointer is at 0 or the stack is
\* empty, canRedo() is false exactly when the pointer is at the last index,
\* and undo() resp. redo() called in those states leaves historyStack,
\* historyPointer, the scene and layers as they were.
C19_BoundaryNoOps ==
  /\ [](~canUndo(This) <=> (historyPointer = 0 \/ historyStack = <<>>))
  /\ [](~canRedo(This) <=> historyPointer = Len(historyStack) - 1)
  /\ [][lastOp'.op \in {"undoAtStart", "redoAtEnd"} =>
          UNCHANGED <<historyStack, historyPointer, objects, heap, layers,
                      isRestoringState>>]_vars

\* undo() was called at the first snapshot, with snapshots ahead to redo.
C19_UndoAtFirstSnapshot ==
  lastOp.op = "undoAtStart" /\ historyPointer = 0 /\ Len(historyStack) >= 2

\* C20: after removeLayer(id) for an id in layers, also when the Delete
\* hotkey calls it, the layer's object is off the canvas, no entry of
\* layers has that id, selectedLayerId is null if it was id, and the other
\* entries are as they were, in the same order.
C20_RemoveLayerPost ==
  [][(lastOp'.op \in {"removeLayer", "deleteSelected"}
        /\ \E i \in 1..Len(layers) : layers[i].id = lastOp'.arg.id) =>
       LET id == lastOp'.arg.id
           keep == {l \in {layers[i] : i \in 1..Len(layers)} : l.id # id}
       IN /\ \A i \in 1..Len(layers) :
               layers[i].id = id => layers[i].object \notin SeqToSet(objects')
          /\ \A i \in 1..Len(layers') : layers'[i].id # id
          /\ selectedLayerId = id => selectedLayerId' = NoId
          /\ layers' = SelectSeqOf(layers, keep)]_vars

\* The selected layer, the upper of two, has been removed by id: the lower
\* one and the base layer remain.
C20_SelectedUpperRemoved ==
  /\ lastOp.op = "removeLayer" /\ lastOp.arg.id = 2
  /\ Len(layers) = 1 /\ layers[1].id = 1 /\ selectedLayerId = NoId
  /\ Len(objects) = 2

\* ---------------------------------------------------------------- snapshots
SingleCommands == {"addRectangle", "addCircle", "addText", "duplicated",
                   "removeLayer", "reorderLayer"}

\* C21: each create (shape or text), duplicateActiveObject, removeLayer and
\* reorderLayer command pushes exactly one snapshot: afterwards the stack
\* ends one past the pointer the command found, so that one undo() lands
\* on the state before the command.
C21_OneSnapshotPerCommand ==
  [][lastOp'.op \in SingleCommands =>
       /\ Len(historyStack') = historyPointer + 2
       /\ historyPointer' = historyPointer + 1]_vars

\* The objects of a serialized scene that are no base layer
sceneObjectsOf(state) ==
  {j \in 1..Len(state.canvas) : state.canvas[j].type # "baselayer"}

\* C22: every snapshot of historyStack is consistent in itself: its layer
\* list has exactly one entry for each non-base object of its serialized
\* scene, and none without an object.
C22_SnapshotsConsistent ==
  \A i \in 1..Len(historyStack) :
    Len(historyStack[i].layers) = Cardinality(sceneObjectsOf(historyStack[i]))

\* The snapshot an awaited undo()/redo() has landed on.
landedSnapshot == historyStack[historyPointer + 1]

\* C23: once an undo() or redo() has landed on a snapshot, every restored
\* layer has the name, the visible flag and the locked flag that the
\* snapshot's layer metadata stores for it (the entry at its position).
C23_RestoredLayerMetadata ==
  (lastOp.op \in {"undone", "redone"} /\ restores = <<>>) =>
    \A i \in 1..Min(Len(layers), Len(landedSnapshot.layers)) :
      /\ layers[i].name = landedSnapshot.layers[i].name
      /\ layers[i].visible = landedSnapshot.layers[i].visible
      /\ layers[i].locked = landedSnapshot.layers[i].locked

\* The drawing previews on the canvas.
previewsOnCanvas == {i \in 1..Len(objects) : heap[objects[i]].isDrawingPreview}

\* C24: every pointer-up received while drawing returns the state machine
\* to Idle: isDrawingObject is false, drawingStartPoint is null, no preview
\* is on the canvas, the tool is 'select', and exactly one tool_change
\* event, with tool 'select', has fired.
C24_PointerUpReturnsToIdle ==
  [][(lastOp'.op = "mouseUp" /\ isDrawingObject) =>
       /\ ~isDrawingObject'
       /\ drawingStartPoint' = NoPoint
       /\ \A i \in 1..Len(objects') : ~heap'[objects'[i]].isDrawingPreview
       /\ selectedTool' = "select"
       /\ lastOp'.fired = <<"select">>]_vars

\* C25: whatever presses, moves, releases and tool changes arrive, the
\* canvas holds at most one drawing preview while drawing and none
\* otherwise.
C25_AtMostOnePreview ==
  IF isDrawingObject THEN Cardinality(previewsOnCanvas) <= 1
  ELSE previewsOnCanvas = {}

\* What canvas.toJSON() gives for the scene without its drawing previews.
sceneJSON ==
  [i \in 1..Len(Scene) |->
     [type |-> Scene[i].type, left |-> Scene[i].left, top |-> Scene[i].top,
      width |-> Scene[i].width, height |-> Scene[i].height,
      visible |-> Scene[i].visible, angle |-> Scene[i].angle]]

\* C26: no snapshot pushed to historyStack contains a drawing preview,
\* however a drag is interleaved with the events that push snapshots: the
\* snapshot a handler leaves on top of the stack serializes the scene
\* without its previews.
C26_NoPreviewInSnapshot ==
  [][(historyStack' # historyStack /\ historyStack' # <<>>) =>
       historyStack'[Len(historyStack')].canvas = sceneJSON']_vars

\* C27: every undo() or redo() that sets isRestoringState resets it to
\* false in the end, also when the asynchronous reload fails.
C27_RestoringEventuallyReset == isRestoringState ~> ~isRestoringState

\* C28: once the commands issued have run to their end, selectedLayerId
\* is null or the id of an entry of layers.
C28_SelectedLayerExists ==
  (restores = <<>> /\ clones = <<>> /\ images = <<>>) =>
    \/ selectedLayerId = NoId
    \/ \E i \in 1..Len(layers) : layers[i].id = selectedLayerId

\* ---------------------------------------------------------------- base layer size
\* The boundary of the base layer, in half units.
baseBounds ==
  LET cfg == baseLayerConfigOf(This)
  IN [left |-> 2 * cfg.x, top |-> 2 * cfg.y,
      right |-> 2 * (cfg.x + cfg.width), bottom |-> 2 * (cfg.y + cfg.height)]

fitsIn(box, bounds) ==
  /\ box.width <= bounds.right - bounds.left
  /\ box.height <= bounds.bottom - bounds.top

isWithin(box, bounds) ==
  /\ box.left >= bounds.left /\ box.top >= bounds.top
  /\ box.left + box.width <= bounds.right
  /\ box.top + box.height <= bounds.bottom

\* C29: after updateBaseLayer has changed the width or the height, every
\* object other than the base layer whose bounding box is no larger than
\* the new boundary lies within it, and every such object that was within
\* the new boundary already has kept its position.
C29_ObjectsPulledIntoBounds ==
  [][(lastOp'.op = "updateBaseLayer"
        /\ (lastOp'.arg.config.width # NoSize
              \/ lastOp'.arg.config.height # NoSize)) =>
       \A o \in SeqToSet(objects') :
         ~IsBaseLayerInstance(This, o) =>
           /\ fitsIn(getBoundingRect(heap'[o]), baseBounds')
                => isWithin(getBoundingRect(heap'[o]), baseBounds')
           /\ isWithin(getBoundingRect(heap[o]), baseBounds')
                => (heap'[o].left = heap[o].left /\ heap'[o].top = heap[o].top)
    ]_vars

\* ---------------------------------------------------------------- camera lock flags
LockCommands == {"setCameraLocked", "handleCameraLockToggle", "setActiveDesign"}

\* C30: after every toggle of the camera lock, by the toolbar button or by
\* Ctrl/Cmd+L, and after every setActiveDesign, the store's cameraLocked
\* equals the cameraLocked of the active document.
C30_LockFlagsAgree ==
  lastOp.op \in LockCommands => doc.cameraLocked = camera.locked

====
